---- MODULE Spec2Model ----
(***************************************************************************)
(* Sheet ingestion and derived-metrics engine of the research dashboard    *)
(* (src/src/models/researchSeries.model.js, the route file that starts at  *)
(* line 2382).  Cells are JavaScript values (null, number, string);        *)
(* numbers are fixed-point hundredths, strings are TLA+ strings.           *)
(***************************************************************************)
EXTENDS Integers, Sequences, FiniteSets, TLC

\* ------------------------------------------------------------------------
\* State
\* ------------------------------------------------------------------------

VARIABLES
    pctCell,    \* the raw percentage cell under parse, with the number it reads as
    pctOut      \* the parser that read it and the value it stores
pctVars == <<pctCell, pctOut>>

VARIABLES
    hdrRows,    \* the raw rows of the sheet whose header is looked for
    hdrOut      \* the parser that looked, its headerRowIdx and the rows it reads
hdrVars == <<hdrRows, hdrOut>>

VARIABLES
    feeIn,      \* the category, the referral rule table and the price of a row
    feeOut      \* the referral fee computed for it
feeVars == <<feeIn, feeOut>>

VARIABLES
    maRows,     \* the data rows of a Market Analysis sheet, each with what
                \* the sheet's author means by it
    maOut       \* the handler's result, MaPending before it has run
maVars == <<maRows, maOut>>

VARIABLES
    reconIn,    \* the records a summary query reads, and its parameters
    reconOut    \* what the summary query reported for them
reconVars == <<reconIn, reconOut>>

VARIABLES
    wtIn,       \* a Market-research sheet, with the weight and the volume of
                \* its first row that holds both, and the size-tier and the
                \* FBA fee rules of the store
    wtOut       \* what the handler computed from it
wtVars == <<wtIn, wtOut>>

VARIABLES
    researchSeries,     \* the ResearchSeries collection, in insertion order
    researchDatasets,   \* the ResearchDataset collection, by _id
    researchCategories, \* the ResearchCategory collection, by _id
    procs,      \* the running handlers: the background auto-ingestion and the
                \* ingest request of each dataset, each with its position
    faults,     \* the database operations that have thrown so far
    ingests,    \* the ingest requests received so far
    runs        \* the last ingestion that ran start to end with no other
                \* handler in between, and the records it left
stVars == <<researchSeries, researchDatasets, researchCategories, procs, faults, ingests, runs>>

VARIABLES
    removals    \* the DELETE request of each dataset: "none" before it, "series"
                \* once the dataset's records are deleted, "done" once its
                \* document is; researchDatasets then keeps the document the
                \* running handlers loaded
rmVars == <<removals>>

vars == <<pctVars, hdrVars, feeVars, maVars, reconVars, wtVars, stVars, rmVars>>

\* What each group of steps leaves alone
notPct == <<hdrVars, feeVars, maVars, reconVars, wtVars, stVars, rmVars>>
notHdr == <<pctVars, feeVars, maVars, reconVars, wtVars, stVars, rmVars>>
notFee == <<pctVars, hdrVars, maVars, reconVars, wtVars, stVars, rmVars>>
notMa == <<pctVars, hdrVars, feeVars, reconVars, wtVars, stVars, rmVars>>
notRecon == <<pctVars, hdrVars, feeVars, maVars, wtVars, stVars, rmVars>>
notWt == <<pctVars, hdrVars, feeVars, maVars, reconVars, stVars, rmVars>>
notSt == <<pctVars, hdrVars, feeVars, maVars, reconVars, wtVars, rmVars>>
notStRm == <<pctVars, hdrVars, feeVars, maVars, reconVars, wtVars>>

\* ------------------------------------------------------------------------
\* JavaScript values
\* ------------------------------------------------------------------------

\* Fixed-point unit of every modelled number: 1 = 0.01.
Scale == 10 * 10

Null == [t |-> "null", n |-> 0, s |-> ""]
NaN == [t |-> "nan", n |-> 0, s |-> ""]
Num(i) == [t |-> "num", n |-> i, s |-> ""]
Str(x) == [t |-> "str", n |-> 0, s |-> x]

\* v == null (null or undefined)
IsNull(v) == v.t = "null"
\* typeof v === 'string'
IsStr(v) == v.t = "str"
\* typeof v === 'number' (NaN included)
IsNumberType(v) == v.t \in {"num", "nan"}
\* a number that is not NaN
IsNum(v) == v.t = "num"

Mul(a, b) == (a * b) \div Scale
Max2(a, b) == IF a >= b THEN a ELSE b
Min2(a, b) == IF a <= b THEN a ELSE b

\* ------------------------------------------------------------------------
\* Strings
\* ------------------------------------------------------------------------

UpperChars == "ABCDEFGHIJKLMNOPQRSTUVWXYZ"
LowerChars == "abcdefghijklmnopqrstuvwxyz"
DigitChars == "0123456789"

CharAt(s, i) == SubSeq(s, i, i)

\* Body(value): value is computed once however often Body uses it
Bind(value, Body(_)) == Body(value)

RECURSIVE IndexFrom(_, _, _)
IndexFrom(alphabet, c, i) ==
    IF i > Len(alphabet) THEN 0
    ELSE IF CharAt(alphabet, i) = c THEN i
    ELSE IndexFrom(alphabet, c, i + 1)

\* alphabet.indexOf(c) + 1
IndexIn(alphabet, c) == IndexFrom(alphabet, c, 1)

DigitSet == {CharAt(DigitChars, i) : i \in 1..Len(DigitChars)}
LowerSet == {CharAt(LowerChars, i) : i \in 1..Len(LowerChars)}
IsDigit(c) == c \in DigitSet
IsLowerLetter(c) == c \in LowerSet
IsSpace(c) == c = " "

\* toLowerCase() of one character
LowerMap == [i \in 1..Len(UpperChars) |-> CharAt(LowerChars, i)]
UpperSet == {CharAt(UpperChars, i) : i \in 1..Len(UpperChars)}
LowerChar(c) == IF c \in UpperSet THEN LowerMap[IndexIn(UpperChars, c)] ELSE c

RECURSIVE ToLower(_)
ToLower(s) ==
    IF s = "" THEN ""
    ELSE IF Len(s) = 1 THEN LowerChar(s)
    ELSE ToLower(SubSeq(s, 1, Len(s) \div 2)) \o ToLower(SubSeq(s, (Len(s) \div 2) + 1, Len(s)))

\* s.includes(k)
Includes(s, k) ==
    \E i \in 1..(Len(s) - Len(k) + 1) : SubSeq(s, i, i + Len(k) - 1) = k

IncludesAny(s, keys) == \E k \in keys : Includes(s, k)

RECURSIVE TrimLeft(_)
TrimLeft(s) == IF s # "" /\ IsSpace(CharAt(s, 1)) THEN TrimLeft(Tail(s)) ELSE s

RECURSIVE TrimRight(_)
TrimRight(s) ==
    IF s # "" /\ IsSpace(CharAt(s, Len(s))) THEN TrimRight(SubSeq(s, 1, Len(s) - 1)) ELSE s

\* s.trim()
Trim(s) == TrimRight(TrimLeft(s))

\* s.replace(/[chars]/g, '')
RECURSIVE RemoveChars(_, _)
RemoveChars(s, chars) ==
    IF s = "" THEN ""
    ELSE (IF CharAt(s, 1) \in chars THEN "" ELSE CharAt(s, 1)) \o RemoveChars(Tail(s), chars)

\* s.replace(/[^chars]/g, '') for a predicate given as the kept alphabet
RECURSIVE KeepChars(_, _)
KeepChars(s, alphabet) ==
    IF s = "" THEN ""
    ELSE (IF IndexIn(alphabet, CharAt(s, 1)) > 0 THEN CharAt(s, 1) ELSE "")
         \o KeepChars(Tail(s), alphabet)

RECURSIVE DigitsPrefix(_)
DigitsPrefix(s) ==
    IF s # "" /\ IsDigit(CharAt(s, 1)) THEN CharAt(s, 1) \o DigitsPrefix(Tail(s)) ELSE ""

RECURSIVE NatOf(_)
NatOf(ds) ==
    IF ds = "" THEN 0
    ELSE 10 * NatOf(SubSeq(ds, 1, Len(ds) - 1)) + (IndexIn(DigitChars, CharAt(ds, Len(ds))) - 1)

\* The fraction digits fs as hundredths (digits after the second are cut).
FracOf(fs) ==
    IF fs = "" THEN 0
    ELSE IF Len(fs) = 1 THEN 10 * NatOf(fs)
    ELSE NatOf(SubSeq(fs, 1, 2))

\* The longest numeric prefix [+-]digits[.digits] of s, as
\* [ok, n, rest]: ok is FALSE when the prefix holds no digit.
UnsignedPrefix(body) ==
    Bind(DigitsPrefix(body), LAMBDA ip :
    Bind(SubSeq(body, Len(ip) + 1, Len(body)), LAMBDA afterInt :
    Bind(afterInt # "" /\ CharAt(afterInt, 1) = ".", LAMBDA hasDot :
    Bind(IF hasDot THEN DigitsPrefix(Tail(afterInt)) ELSE "", LAMBDA fp :
        [ok |-> ip # "" \/ fp # "",
         n |-> NatOf(ip) * Scale + FracOf(fp),
         rest |-> IF hasDot /\ (ip # "" \/ fp # "")
                  THEN SubSeq(afterInt, Len(fp) + 2, Len(afterInt))
                  ELSE afterInt]))))

Negated(p) == [p EXCEPT !.n = 0 - p.n]

NumericPrefix(s) ==
    IF s # "" /\ CharAt(s, 1) = "-" THEN Negated(UnsignedPrefix(Tail(s)))
    ELSE IF s # "" /\ CharAt(s, 1) = "+" THEN UnsignedPrefix(Tail(s))
    ELSE UnsignedPrefix(s)

NumOrNaN(ok, p) == IF ok THEN Num(p.n) ELSE NaN

\* parseFloat(s): leading white space skipped, trailing text ignored.
ParseFloat(s) == Bind(NumericPrefix(TrimLeft(s)), LAMBDA p : NumOrNaN(p.ok, p))

\* Number(s): the whole trimmed string must be a number; '' is 0.
NumberOfString(s) ==
    Bind(Trim(s), LAMBDA t :
        IF t = "" THEN Num(0)
        ELSE Bind(NumericPrefix(t), LAMBDA p : NumOrNaN(p.ok /\ p.rest = "", p)))

\* String(v || '') for a cell: null, 0, NaN and '' give ''.
RECURSIVE NatToString(_)
NatToString(i) ==
    IF i < 10 THEN CharAt(DigitChars, i + 1)
    ELSE NatToString(i \div 10) \o CharAt(DigitChars, (i % 10) + 1)

\* String(n) of a number held in hundredths.
NumToString(n) ==
    LET a == IF n < 0 THEN 0 - n ELSE n
        ip == NatToString(a \div Scale)
        f == a % Scale
        fs == IF f = 0 THEN ""
              ELSE IF f % 10 = 0 THEN "." \o NatToString(f \div 10)
              ELSE IF f < 10 THEN ".0" \o NatToString(f)
              ELSE "." \o NatToString(f)
    IN  (IF n < 0 THEN "-" ELSE "") \o ip \o fs

\* String(v)
StringOf(v) ==
    IF IsStr(v) THEN v.s
    ELSE IF IsNum(v) THEN NumToString(v.n)
    ELSE IF v.t = "nan" THEN "NaN"
    ELSE "null"

\* JavaScript truthiness of a cell
Truthy(v) == (IsStr(v) /\ v.s # "") \/ (IsNum(v) /\ v.n # 0)

\* String(v || '')
StringOrEmpty(v) == IF Truthy(v) THEN StringOf(v) ELSE ""

\* row[idx], undefined (null) outside the row
CellAt(row, idx) == IF idx >= 1 /\ idx <= Len(row) THEN row[idx] ELSE Null

\* header.findIndex(pred): first index (from 1) that satisfies P, 0 when none
FindIndex(seq, P(_)) ==
    LET hits == {i \in 1..Len(seq) : P(seq[i])}
    IN  IF hits = {} THEN 0 ELSE CHOOSE i \in hits : \A j \in hits : i <= j

\* ------------------------------------------------------------------------
\* Percentage cells
\* ------------------------------------------------------------------------

\* /[%\s,]/g
PctFormatChars == {"%", " ", ","}
\* /[$,\s%]/g
AdsFormatChars == {"$", ",", " ", "%"}

\* if (pct > 0 && pct <= 1) pct = pct * 100
NormalizePctNoScaling(n) == n
NormalizePct(n) == IF n > 0 /\ n <= Scale THEN n * 100 ELSE n

\* The stored value of a percentage cell, Null when the row is skipped.
FulfillmentPct(rawProp) ==
    IF IsNull(rawProp) \/ rawProp = Str("") THEN Null
    ELSE Bind(IF IsStr(rawProp) THEN ParseFloat(RemoveChars(rawProp.s, PctFormatChars))
              ELSE rawProp,
              LAMBDA pct : IF ~IsNum(pct) THEN Null ELSE Num(NormalizePct(pct.n)))

PublicationTimePct(rawSalesProp) ==
    IF IsNull(rawSalesProp) THEN Null
    ELSE Bind(IF IsStr(rawSalesProp) THEN ParseFloat(RemoveChars(rawSalesProp.s, PctFormatChars))
              ELSE rawSalesProp,
              LAMBDA pct : IF ~IsNum(pct) THEN Null ELSE Num(NormalizePct(pct.n)))

OriginOfSellerPct(rawSalesProp) ==
    IF IsNull(rawSalesProp) THEN Null
    ELSE Bind(IF IsStr(rawSalesProp) THEN ParseFloat(RemoveChars(rawSalesProp.s, PctFormatChars))
              ELSE rawSalesProp,
              LAMBDA pct : IF ~IsNum(pct) THEN Null ELSE Num(NormalizePct(pct.n)))

ListingConcentrationPct(rawSalesProp) ==
    IF IsNull(rawSalesProp) THEN Null
    ELSE Bind(IF IsStr(rawSalesProp) THEN ParseFloat(RemoveChars(rawSalesProp.s, PctFormatChars))
              ELSE rawSalesProp,
              LAMBDA pct : IF ~IsNum(pct) THEN Null ELSE Num(NormalizePct(pct.n)))

\* value / 100 (exact for the whole numbers the model feeds it)
Div100(n) == n \div 100

\* parseValue(rawValue, isPercentage) of the Ads direct-column path
AdsParseValue(rawValue, isPercentage) ==
    IF IsNull(rawValue) \/ rawValue = Str("") THEN Null
    ELSE Bind(IF IsStr(rawValue) THEN ParseFloat(RemoveChars(rawValue.s, AdsFormatChars))
              ELSE rawValue,
              LAMBDA value :
                  IF ~IsNum(value) THEN Null
                  ELSE IF isPercentage /\ value.n > Scale THEN Num(Div100(value.n))
                  ELSE value)

\* read(idx, perc) of the Ads category-aggregate path, applied to the cell
AdsRead(v, perc) ==
    IF IsNull(v) \/ v = Str("") THEN Null
    ELSE Bind(IF IsStr(v) THEN NumberOfString(RemoveChars(v.s, AdsFormatChars)) ELSE v,
              LAMBDA num :
                  IF ~IsNum(num) THEN Null
                  ELSE IF perc /\ num.n > Scale THEN Num(Div100(num.n))
                  ELSE num)

\* A raw cell and the number a reader takes it for (num, in hundredths).
PctCell(raw, isNum, num) == [raw |-> raw, isNum |-> isNum, num |-> num]

PctCells ==
    { PctCell(Str("45%"), TRUE, 4500), PctCell(Num(45), TRUE, 45),
      PctCell(Num(8300), TRUE, 8300), PctCell(Str("83"), TRUE, 8300),
      PctCell(Str("0.45"), TRUE, 45), PctCell(Num(100), TRUE, 100),
      PctCell(Str("100%"), TRUE, 10000), PctCell(Num(10000), TRUE, 10000),
      PctCell(Str(" 12 %"), TRUE, 1200), PctCell(Num(1), TRUE, 1),
      PctCell(Str("1"), TRUE, 100), PctCell(Num(200), TRUE, 200),
      PctCell(Str("1,200%"), TRUE, 120000), PctCell(Num(50), TRUE, 50),
      PctCell(Str("0.5"), TRUE, 50), PctCell(Num(0), TRUE, 0),
      PctCell(Str("abc"), FALSE, 0), PctCell(Str(""), FALSE, 0),
      PctCell(Null, FALSE, 0), PctCell(Str("%"), FALSE, 0) }

PctIdle == pctCell = PctCell(Null, FALSE, 0) /\ pctOut = [parser |-> "idle", value |-> Null]

PctInit == pctCell \in PctCells /\ pctOut = [parser |-> "none", value |-> Null]

ParseFulfillmentPct ==
    /\ pctOut.parser = "none"
    /\ pctOut' = [parser |-> "Fulfillment", value |-> FulfillmentPct(pctCell.raw)]
    /\ UNCHANGED <<pctCell, notPct>>

ParsePublicationTimePct ==
    /\ pctOut.parser = "none"
    /\ pctOut' = [parser |-> "Publication Time", value |-> PublicationTimePct(pctCell.raw)]
    /\ UNCHANGED <<pctCell, notPct>>

ParseOriginOfSellerPct ==
    /\ pctOut.parser = "none"
    /\ pctOut' = [parser |-> "Origin of Seller", value |-> OriginOfSellerPct(pctCell.raw)]
    /\ UNCHANGED <<pctCell, notPct>>

ParseListingConcentrationPct ==
    /\ pctOut.parser = "none"
    /\ pctOut' = [parser |-> "Listing Concentration",
                  value |-> ListingConcentrationPct(pctCell.raw)]
    /\ UNCHANGED <<pctCell, notPct>>

ParseAdsDirectPct ==
    /\ pctOut.parser = "none"
    /\ pctOut' = [parser |-> "Ads Metrics", value |-> AdsParseValue(pctCell.raw, TRUE)]
    /\ UNCHANGED <<pctCell, notPct>>

ParseAdsClickSharePct ==
    /\ pctOut.parser = "none"
    /\ pctOut' = [parser |-> "Ads Metrics aggregate", value |-> AdsRead(pctCell.raw, TRUE)]
    /\ UNCHANGED <<pctCell, notPct>>

PctNext ==
    \/ ParseFulfillmentPct
    \/ ParsePublicationTimePct
    \/ ParseOriginOfSellerPct
    \/ ParseListingConcentrationPct
    \/ ParseAdsDirectPct
    \/ ParseAdsClickSharePct

PointsParsers ==
    {"Fulfillment", "Publication Time", "Origin of Seller", "Listing Concentration"}
AdsParsers == {"Ads Metrics", "Ads Metrics aggregate"}

\* The cell in percentage points: a fraction in (0, 1] times 100, else as read.
InPoints(cell) == IF cell.num > 0 /\ cell.num <= Scale THEN cell.num * 100 ELSE cell.num
\* The cell as a fraction: a number above 1 divided by 100, else as read.
AsFraction(cell) == IF cell.num > Scale THEN cell.num \div 100 ELSE cell.num

\* C8 (as amended): a percentage cell read by the Fulfillment, Publication
\* Time, Origin of Seller or Listing Concentration parser is stored in
\* percentage points (a fraction in (0, 1] times 100, a number above 1 kept,
\* the percent sign stripped); the Ads Metrics percentage columns are stored
\* as fractions (a number above 1 divided by 100, a number up to 1 kept).
C8_PercentagePoints ==
    /\ (pctOut.parser \in PointsParsers /\ pctCell.isNum)
          => pctOut.value = Num(InPoints(pctCell))
    /\ (pctOut.parser \in AdsParsers /\ pctCell.isNum)
          => pctOut.value = Num(AsFraction(pctCell))

\* C8 witness: the Fulfillment parser has read the cell "45%" and stores 45.
C8_Witness ==
    /\ pctOut.parser = "Fulfillment"
    /\ pctCell.raw = Str("45%")
    /\ pctOut.value = Num(45 * Scale)

\* C8 as stated: every parser, the Ads Metrics percentage columns included,
\* stores percentage points.
C8_AllParsersStorePoints ==
    (pctOut.parser \in (PointsParsers \cup AdsParsers) /\ pctCell.isNum /\ pctCell.num > 0)
        => pctOut.value = Num(InPoints(pctCell))

\* ------------------------------------------------------------------------
\* Header detection
\* ------------------------------------------------------------------------

EXPECTED_MARKET_COL_KEYS ==
    {"avg. monthly unit sales", "avg monthly unit sales", "avg. monthly revenue",
     "avg monthly revenue", "avg. price", "avg price", "avg. ratings", "avg ratings",
     "avg. rating", "avg rating", "sample size", "sample type"}

EXPECTED_COL_KEYS ==
    {"ctr", "cpc", "roas", "cr", "acos", "tacos", "cpp", "click share", "clickshare",
     "clicks", "impressions", "monthly sales", "monthly searches", "ppc bid",
     "avg price", "price"}

EXPECTED_KEYS == {"avg.weight", "avg weight", "avg.volume", "avg volume"}

\* Rows scanned for the header: Math.min(rows.length, 10)
HeaderScanLimit == 10

\* matches: the cells of row r whose lower-cased text holds an expected key
RECURSIVE CountMatches(_, _, _)
CountMatches(r, keys, j) ==
    IF j > Len(r) THEN 0
    ELSE (IF IncludesAny(ToLower(StringOrEmpty(r[j])), keys) THEN 1 ELSE 0)
         + CountMatches(r, keys, j + 1)

\* The loop over the first rows: i is the 0-based row index, best the best
\* count so far and idx the row that holds it.
RECURSIVE HeaderScanLastWins(_, _, _, _, _)
HeaderScanLastWins(rows, keys, i, best, idx) ==
    IF i >= Min2(Len(rows), HeaderScanLimit) THEN idx
    ELSE LET matches == CountMatches(rows[i + 1], keys, 1)
         IN  IF matches >= best
             THEN HeaderScanLastWins(rows, keys, i + 1, matches, i)
             ELSE HeaderScanLastWins(rows, keys, i + 1, best, idx)

RECURSIVE HeaderScan(_, _, _, _, _)
HeaderScan(rows, keys, i, best, idx) ==
    IF i >= Min2(Len(rows), HeaderScanLimit) THEN idx
    ELSE LET matches == CountMatches(rows[i + 1], keys, 1)
         IN  IF matches > best
             THEN HeaderScan(rows, keys, i + 1, matches, i)
             ELSE HeaderScan(rows, keys, i + 1, best, idx)

\* headerRowIdx (0-based), from bestMatchCount = -1 and headerRowIdx = 0
HeaderRowIdx(rows, keys) == HeaderScan(rows, keys, 0, -1, 0)

\* rows[i] for a 0-based i, [] when there is no such row
RowAt(rows, i) == IF i >= 0 /\ i < Len(rows) THEN rows[i + 1] ELSE <<>>

\* (rows[headerRowIdx] || []).map((h) => String(h || '').trim())
HeaderOf(rows, headerRowIdx) ==
    [j \in 1..Len(RowAt(rows, headerRowIdx)) |->
        Trim(StringOrEmpty(RowAt(rows, headerRowIdx)[j]))]

\* The 0-based indexes from, from + 1, ... of the rows of a sheet of n rows
RowIndexesFrom(from, n) == [k \in 1..Max2(0, n - from) |-> from + k - 1]

\* rowHasNumbers(arr) of handleAdsMetricsSheet
RowHasNumbers(arr) ==
    \E j \in 1..Len(arr) :
        /\ ~IsNull(arr[j])
        /\ arr[j] # Str("")
        /\ LET s == KeepChars(StringOf(arr[j]), "0123456789.-")
           IN  s # "" /\ IsNum(NumberOfString(s))

\* The 0-based indexes of the rows handleAdsMetricsSheet processes
AdsRowsToProcess(rows, headerRowIdx) ==
    IF headerRowIdx > 0 /\ RowHasNumbers(RowAt(rows, headerRowIdx - 1))
    THEN <<headerRowIdx - 1>>
    ELSE RowIndexesFrom(headerRowIdx + 1, Len(rows))

\* Longest sheet the detection is tried on, row kind by row kind
MaxSheetRows == 2
\* Rows put in front of a header to push it past the scanned rows
MaxLeadingRows == 11

TitleRow == <<Str("Category report US")>>
TitleRowWithKey == <<Str("Batch(1) Avg Price"), Null>>
MarketHeaderRow == <<Str("Time"), Str("Avg. Monthly Unit Sales"), Str("Sample Size")>>
WeightHeaderRow == <<Str("Avg.Weight(pounds)"), Str("Avg.Volume(in3)"), Str("Brand")>>
AdsHeaderRow == <<Str("Keyword"), Str("Clicks"), Str("Impressions"), Str("CTR")>>
DataRow == <<Str("2025-08"), Num(120 * Scale), Num(500 * Scale)>>

HdrRowKinds ==
    {TitleRow, TitleRowWithKey, MarketHeaderRow, WeightHeaderRow, AdsHeaderRow, DataRow}

\* k title rows followed by a header and a data row
LeadingRows(k, header) == [i \in 1..(k + 2) |->
    IF i <= k THEN TitleRow ELSE IF i = k + 1 THEN header ELSE DataRow]

HdrSheets ==
    UNION { [1..n -> HdrRowKinds] : n \in 1..MaxSheetRows }
    \cup { LeadingRows(k, h) : k \in 0..MaxLeadingRows,
                               h \in {MarketHeaderRow, WeightHeaderRow, AdsHeaderRow} }

HdrIdle == hdrRows = <<>> /\ hdrOut = [parser |-> "idle", headerRowIdx |-> 0, dataRows |-> <<>>]

HdrInit ==
    /\ hdrRows \in HdrSheets
    /\ hdrOut = [parser |-> "none", headerRowIdx |-> 0, dataRows |-> <<>>]

DetectMarketAnalysisHeader ==
    /\ hdrOut.parser = "none"
    /\ LET headerRowIdx == HeaderRowIdx(hdrRows, EXPECTED_MARKET_COL_KEYS)
       IN  hdrOut' = [parser |-> "Market Analysis", headerRowIdx |-> headerRowIdx,
                      dataRows |-> RowIndexesFrom(headerRowIdx + 1, Len(hdrRows))]
    /\ UNCHANGED <<hdrRows, notHdr>>

DetectMarketResearchHeader ==
    /\ hdrOut.parser = "none"
    /\ LET headerRowIdx == HeaderRowIdx(hdrRows, EXPECTED_KEYS)
       IN  hdrOut' = [parser |-> "Market-research", headerRowIdx |-> headerRowIdx,
                      dataRows |-> RowIndexesFrom(headerRowIdx + 1, Len(hdrRows))]
    /\ UNCHANGED <<hdrRows, notHdr>>

DetectAdsMetricsHeader ==
    /\ hdrOut.parser = "none"
    /\ LET headerRowIdx == HeaderRowIdx(hdrRows, EXPECTED_COL_KEYS)
       IN  hdrOut' = [parser |-> "Ads Metrics", headerRowIdx |-> headerRowIdx,
                      dataRows |-> AdsRowsToProcess(hdrRows, headerRowIdx)]
    /\ UNCHANGED <<hdrRows, notHdr>>

HdrNext ==
    \/ DetectMarketAnalysisHeader
    \/ DetectMarketResearchHeader
    \/ DetectAdsMetricsHeader

ExpectedKeysOf(parser) ==
    IF parser = "Market Analysis" THEN EXPECTED_MARKET_COL_KEYS
    ELSE IF parser = "Market-research" THEN EXPECTED_KEYS
    ELSE EXPECTED_COL_KEYS

\* The cells of the 0-based row i that hold an expected key
MatchingCells(rows, keys, i) ==
    { j \in 1..Len(RowAt(rows, i)) :
        \E k \in keys : Includes(ToLower(StringOrEmpty(RowAt(rows, i)[j])), k) }

\* idx is the smallest scanned row whose count of matching cells is maximal
IsFirstBestRow(rows, keys, idx) ==
    LET lim == Min2(Len(rows), 10)
        cnt(i) == Cardinality(MatchingCells(rows, keys, i))
    IN  /\ idx \in 0..(lim - 1)
        /\ \A i \in 0..(lim - 1) : cnt(i) <= cnt(idx)
        /\ \A i \in 0..(idx - 1) : cnt(i) < cnt(idx)
        /\ (\A i \in 0..(lim - 1) : cnt(i) = 0) => idx = 0

\* Row 0 is a one-cell title and row 1 holds at least two column names
TitleThenHeader(rows, keys) ==
    /\ Len(rows) >= 2
    /\ Len(rows[1]) = 1
    /\ Cardinality(MatchingCells(rows, keys, 1)) >= 2
    /\ \A i \in 2..(Min2(Len(rows), 10) - 1) :
          Cardinality(MatchingCells(rows, keys, i))
              <= Cardinality(MatchingCells(rows, keys, 1))

\* The data rows start right below the header
ReadsBelowHeader == hdrOut.dataRows = RowIndexesFrom(hdrOut.headerRowIdx + 1, Len(hdrRows))

\* The Ads parser found a row with a number right above the header
AdsValueRowAbove ==
    /\ hdrOut.parser = "Ads Metrics"
    /\ hdrOut.headerRowIdx > 0
    /\ \E j \in 1..Len(RowAt(hdrRows, hdrOut.headerRowIdx - 1)) :
          LET x == RowAt(hdrRows, hdrOut.headerRowIdx - 1)[j]
          IN  \/ IsNum(x)
              \/ IsStr(x) /\ \E c \in 1..Len(x.s) : IsDigit(CharAt(x.s, c))
                          /\ IsNum(NumberOfString(KeepChars(x.s, "0123456789.-")))

Undef == [t |-> "undef", n |-> 0, s |-> ""]
\* v == null
IsNullish(v) == v.t \in {"null", "undef"}

\* Infinity, above every modelled amount; Infinity - x is Infinity
Infinity == 1000 * 1000 * 1000
Minus(a, b) == IF a = Infinity THEN Infinity ELSE a - b

\* v || 0 for a numeric field
NumOrZero(v) == IF IsNum(v) /\ v.n # 0 THEN v.n ELSE 0
\* v || Infinity for a numeric field
NumOrInfinity(v) == IF IsNum(v) /\ v.n # 0 THEN v.n ELSE Infinity

\* One character of normalize(): lower-cased, '&' spelled out, anything that
\* is not a letter or a digit turned into a space
NormalizeChar(c) ==
    LET l == LowerChar(c)
    IN  IF l = "&" THEN " and "
        ELSE IF IsLowerLetter(l) \/ IsDigit(l) THEN l
        ELSE " "

RECURSIVE MapNormalize(_)
MapNormalize(s) == IF s = "" THEN "" ELSE NormalizeChar(CharAt(s, 1)) \o MapNormalize(Tail(s))

\* s.replace(/\s+/g, ' ')
RECURSIVE CollapseSpaces(_)
CollapseSpaces(s) ==
    IF Len(s) < 2 THEN s
    ELSE IF IsSpace(CharAt(s, 1)) /\ IsSpace(CharAt(s, 2)) THEN CollapseSpaces(Tail(s))
    ELSE CharAt(s, 1) \o CollapseSpaces(Tail(s))

\* normalize(str) of the category match
NormalizeCategory(str) == Trim(CollapseSpaces(MapNormalize(str)))

\* The first word of s (up to the first space)
RECURSIVE FirstWord(_)
FirstWord(s) ==
    IF s = "" \/ IsSpace(CharAt(s, 1)) THEN "" ELSE CharAt(s, 1) \o FirstWord(Tail(s))

\* new Set(s.split(' ').filter(Boolean))
RECURSIVE SplitWords(_)
SplitWords(s) ==
    IF s = "" THEN {}
    ELSE IF IsSpace(CharAt(s, 1)) THEN SplitWords(Tail(s))
    ELSE LET w == FirstWord(s)
         IN  {w} \cup SplitWords(SubSeq(s, Len(w) + 1, Len(s)))

Tokens(str) == SplitWords(NormalizeCategory(str))

\* jaccard(a, b) >= 0.5
JaccardAtLeastHalf(a, b) ==
    Bind(Tokens(a), LAMBDA A :
    Bind(Tokens(b), LAMBDA B :
        LET inter == Cardinality(A \cap B)
            union == Cardinality(A) + Cardinality(B) - inter
        IN  IF A = {} \/ B = {} THEN FALSE ELSE 2 * inter >= union))

\* categoryMatch of a rule category against the product category name
CategoryMatch(ruleCategory, catName) ==
    Bind(NormalizeCategory(ruleCategory), LAMBDA ruleCategoryNorm :
    Bind(NormalizeCategory(catName), LAMBDA productCategoryNorm :
        \/ /\ ruleCategoryNorm # ""
           /\ \/ Includes(productCategoryNorm, ruleCategoryNorm)
              \/ Includes(ruleCategoryNorm, productCategoryNorm)
        \/ JaccardAtLeastHalf(ruleCategory, catName)))

\* priceMatch: priceMin <= price <= priceMax, an undefined priceMax never
\* matching and a null or zero one standing for Infinity
PriceMatchAnyBand(rule, priceValue) == TRUE
PriceMatch(rule, priceValue) ==
    LET priceMin == NumOrZero(rule.priceMin)
    IN  /\ priceValue >= priceMin
        /\ IF rule.priceMax = Num(0) \/ rule.priceMax = Null THEN TRUE
           ELSE IsNum(rule.priceMax) /\ priceValue <= rule.priceMax.n

\* rules.filter(...): the rules of the category whose band holds the price
MatchingRules(rules, catName, priceValue) ==
    SelectSeq(rules, LAMBDA rule : CategoryMatch(rule.category, catName)
                                   /\ PriceMatch(rule, priceValue))

\* (a.priceMax || Infinity) - (a.priceMin || 0)
RuleRange(rule) == Minus(NumOrInfinity(rule.priceMax), NumOrZero(rule.priceMin))

\* rule at the place a stable ascending sort by RuleRange gives it
RECURSIVE InsertByRange(_, _)
InsertByRange(sorted, rule) ==
    IF sorted = <<>> THEN <<rule>>
    ELSE IF RuleRange(sorted[Len(sorted)]) <= RuleRange(rule) THEN Append(sorted, rule)
    ELSE Append(InsertByRange(SubSeq(sorted, 1, Len(sorted) - 1), rule), sorted[Len(sorted)])

\* matchingRules.sort((a, b) => aRange - bRange)
RECURSIVE SortByRange(_)
SortByRange(rules) ==
    IF rules = <<>> THEN <<>>
    ELSE InsertByRange(SortByRange(SubSeq(rules, 1, Len(rules) - 1)), rules[Len(rules)])

\* rule.applyTo?.toLowerCase() || 'total'
ApplyToOf(rule) ==
    IF IsStr(rule.applyTo) /\ rule.applyTo.s # "" THEN ToLower(rule.applyTo.s) ELSE "total"

\* The fee one matching rule adds to totalFee
RuleFee(rule, priceValue) ==
    IF ApplyToOf(rule) = "total" THEN Mul(priceValue, NumOrZero(rule.feePercent))
    ELSE IF ApplyToOf(rule) = "portion"
    THEN Bind(Max2(0, Min2(priceValue, NumOrInfinity(rule.priceMax))
                      - Max2(NumOrZero(rule.priceMin), 0)),
              LAMBDA portionAmount :
                  IF portionAmount > 0 THEN Mul(portionAmount, NumOrZero(rule.feePercent))
                  ELSE 0)
    ELSE 0

RECURSIVE SumRuleFees(_, _)
SumRuleFees(rules, priceValue) ==
    IF rules = <<>> THEN 0
    ELSE RuleFee(Head(rules), priceValue) + SumRuleFees(Tail(rules), priceValue)

\* Math.max(...matchingRules.map((rule) => rule.minFeeUSD || 0))
RECURSIVE MaxMinFee(_)
MaxMinFee(rules) ==
    IF Len(rules) = 1 THEN NumOrZero(rules[1].minFeeUSD)
    ELSE Max2(NumOrZero(Head(rules).minFeeUSD), MaxMinFee(Tail(rules)))

\* Number(v) of a category constant
NumberOf(v) ==
    IF IsNum(v) THEN v
    ELSE IF v = Null THEN Num(0)
    ELSE IF IsStr(v) THEN NumberOfString(v.s)
    ELSE NaN

\* What a look-up that throws stands for: the category when findById throws,
\* the only rule of the table when ReferralFeeRule.find throws
Thrown == [t |-> "thrown", n |-> 0, s |-> ""]

\* The referral fee without the fallback to the category defaults
ReferralFeeWithoutDefault(cat, rules, priceValue) ==
    IF cat \in {Null, Thrown} \/ rules = <<Thrown>> THEN [value |-> Null, percent |-> Null]
    ELSE IF cat.name = "" \/ MatchingRules(rules, cat.name, priceValue) = <<>>
    THEN [value |-> Null, percent |-> Null]
    ELSE Bind(Max2(SumRuleFees(SortByRange(MatchingRules(rules, cat.name, priceValue)),
                               priceValue),
                   MaxMinFee(MatchingRules(rules, cat.name, priceValue))),
              LAMBDA totalFee :
                 IF totalFee > 0
                 THEN [value |-> Num(totalFee),
                       percent |-> SortByRange(MatchingRules(rules, cat.name,
                                                             priceValue))[1].feePercent]
                 ELSE [value |-> Null, percent |-> Null])

\* referralFeeValue and referralFeePercent of one row (lines 2712-2842):
\* cat is the category document (Null when there is none), rules the
\* referral rule table in stored order.  A look-up that throws leaves both
\* null: the catch block swallows the error.
ReferralFee(cat, rules, priceValue) ==
    IF cat = Thrown THEN [value |-> Null, percent |-> Null]
    ELSE IF cat = Null \/ cat.name = "" THEN [value |-> Null, percent |-> Null]
    ELSE IF rules = <<Thrown>> THEN [value |-> Null, percent |-> Null]
    ELSE Bind(SortByRange(MatchingRules(rules, cat.name, priceValue)), LAMBDA matchingRules :
         IF matchingRules # <<>>
         THEN Bind(SumRuleFees(matchingRules, priceValue), LAMBDA summed :
              Bind(MaxMinFee(matchingRules), LAMBDA minFee :
              Bind(IF minFee > 0 THEN Max2(summed, minFee) ELSE summed, LAMBDA totalFee :
                  IF totalFee > 0
                  THEN [value |-> Num(totalFee), percent |-> matchingRules[1].feePercent]
                  ELSE [value |-> Null, percent |-> Null])))
         ELSE Bind(NumberOf(cat.referralFeePercentDefault), LAMBDA defaultPct :
              Bind(NumberOf(IF Truthy(cat.referralMinFeeUsd) THEN cat.referralMinFeeUsd
                            ELSE Num(0)), LAMBDA minFee :
                  IF IsNum(defaultPct) /\ defaultPct.n > 0
                  THEN [value |-> Num(Max2(Mul(priceValue, defaultPct.n),
                                           IF IsNum(minFee) THEN minFee.n ELSE 0)),
                        percent |-> defaultPct]
                  ELSE [value |-> Null, percent |-> Null])))

\* A ReferralFeeRule document and a ResearchCategory document
ReferralRule(category, priceMin, priceMax, feePercent, applyTo, minFeeUSD) ==
    [category |-> category, priceMin |-> priceMin, priceMax |-> priceMax,
     feePercent |-> feePercent, applyTo |-> applyTo, minFeeUSD |-> minFeeUSD]

Category(name, referralFeePercentDefault, referralMinFeeUsd, fbaFeeUsd) ==
    [name |-> name, referralFeePercentDefault |-> referralFeePercentDefault,
     referralMinFeeUsd |-> referralMinFeeUsd, fbaFeeUsd |-> fbaFeeUsd,
     sizeTierEstimate |-> Undef, avgWeightLb |-> Undef, avgVolumeIn3 |-> Undef,
     estimatedSideIn |-> Undef, estimatedDimensionalWeightLb |-> Undef,
     estimatedShippingWeightLb |-> Undef,
     adsDefaults |-> [m \in {"ctr", "cpc", "roas", "cr", "acos", "tacos", "cpp"} |-> Undef]]

TwoPortionBands ==
    << ReferralRule("Home & Kitchen", Num(0), Num(10 * Scale), Num(8), Str("portion"), Undef),
       ReferralRule("Home & Kitchen", Num(10 * Scale), Null, Num(15), Str("portion"), Undef) >>

ThreePortionBands ==
    << ReferralRule("Home and Kitchen", Num(20 * Scale), Num(0), Num(20), Str("Portion"), Undef),
       ReferralRule("Home and Kitchen", Num(0), Num(10 * Scale), Num(8), Str("portion"), Undef),
       ReferralRule("Home and Kitchen", Num(10 * Scale), Num(20 * Scale), Num(15),
                    Str("portion"), Undef) >>

TotalWithMinimum ==
    << ReferralRule("Home & Kitchen", Null, Null, Num(15), Str("total"), Num(30)) >>

OtherCategoryOnly ==
    << ReferralRule("Toys", Num(0), Null, Num(15), Undef, Undef),
       ReferralRule("Industrial Supplies", Num(0), Num(10 * Scale), Num(12), Str("portion"),
                    Undef) >>

PortionWithoutMax ==
    << ReferralRule("Home & Kitchen", Num(0), Undef, Num(8), Str("portion"), Undef) >>

ReferralRuleTables ==
    {TwoPortionBands, ThreePortionBands, TotalWithMinimum, OtherCategoryOnly,
     PortionWithoutMax, <<>>}

FeeCategories ==
    { Category("Home & Kitchen", Undef, Undef, Undef),
      Category("Home & Kitchen", Num(15), Num(30), Undef),
      Category("Toys & Games", Undef, Undef, Undef) }

FeePrices == {1 * Scale, 5 * Scale, 10 * Scale, 15 * Scale, 20 * Scale, 25 * Scale}

FeeIdle ==
    /\ feeIn = [cat |-> Null, rules |-> <<>>, price |-> 0]
    /\ feeOut = [done |-> FALSE, value |-> Null, percent |-> Null]

FeeInit ==
    /\ feeIn \in [cat : FeeCategories, rules : ReferralRuleTables, price : FeePrices]
    /\ feeOut = [done |-> FALSE, value |-> Null, percent |-> Null]

\* The referral fee step of one valid Market Analysis row
ComputeReferralFee ==
    /\ ~feeOut.done
    /\ LET fee == ReferralFee(feeIn.cat, feeIn.rules, feeIn.price)
       IN  feeOut' = [done |-> TRUE, value |-> fee.value, percent |-> fee.percent]
    /\ UNCHANGED <<feeIn, notFee>>

FeeNext == ComputeReferralFee

\* The rules of the table that belong to the category
CategoryRules(rules, catName) ==
    { i \in 1..Len(rules) : CategoryMatch(rules[i].category, catName) }

BandMin(rule) == IF IsNum(rule.priceMin) THEN rule.priceMin.n ELSE 0
BandMax(rule) == IF IsNum(rule.priceMax) /\ rule.priceMax.n # 0 THEN rule.priceMax.n
                 ELSE Infinity

\* All rules of the category are applyTo = portion and their bands tile the
\* price axis from 0 to infinity
PortionBandsTile(rules, catName) ==
    LET mine == CategoryRules(rules, catName)
    IN  /\ mine # {}
        /\ \A i \in mine : IsStr(rules[i].applyTo) /\ ToLower(rules[i].applyTo.s) = "portion"
        /\ \A i \in mine : ~(rules[i].priceMax = Undef)
        /\ \E i \in mine : BandMin(rules[i]) = 0
        /\ \E i \in mine : BandMax(rules[i]) = Infinity
        /\ \A i \in mine : BandMax(rules[i]) # Infinity =>
              \E j \in mine : BandMin(rules[j]) = BandMax(rules[i])
        /\ \A i, j \in mine : i # j => BandMin(rules[i]) # BandMin(rules[j])

\* The slice of the price inside the band of a rule, times its feePercent
SliceFee(rule, p) ==
    (Max2(0, Min2(p, BandMax(rule)) - Max2(BandMin(rule), 0)) * rule.feePercent.n) \div Scale

RECURSIVE SumOverRules(_, _, _)
SumOverRules(rules, idxs, p) ==
    IF idxs = {} THEN 0
    ELSE LET i == CHOOSE i \in idxs : TRUE
         IN  SliceFee(rules[i], p) + SumOverRules(rules, idxs \ {i}, p)

\* C3: with all-portion bands that tile the price axis, the referral fee is
\* the sum over the rules of the slice of the price inside each band times
\* the band's feePercent; bands [0,10] at 0.08 and [10,inf) at 0.15 give 1.55
\* at price 15.
C3_PortionFeeSumsEveryBand ==
    (feeOut.done /\ PortionBandsTile(feeIn.rules, feeIn.cat.name)) =>
        /\ feeOut.value
              = Num(SumOverRules(feeIn.rules, CategoryRules(feeIn.rules, feeIn.cat.name),
                                 feeIn.price))
        /\ (feeIn.rules = TwoPortionBands /\ feeIn.price = 15 * Scale)
              => feeOut.value = Num(155)

\* C3: the code's result on the spec's example, the band that holds the
\* price alone: (15 - 10) x 0.15 = 0.75
C3_CodeChargesOnlyTheMatchedBand ==
    (feeOut.done /\ feeIn.rules = TwoPortionBands /\ feeIn.price = 15 * Scale
        /\ feeIn.cat.name = "Home & Kitchen")
        => feeOut.value = Num(75)

\* ------------------------------------------------------------------------
\* Market Analysis sheet (handleMarketAnalysisSheet)
\* ------------------------------------------------------------------------

\* A ResearchDataset document as the handlers read it; timeRangeFrom is ""
\* when no month was detected from the file name
Dataset(id, categoryId, timeRangeFrom, originalFilename) ==
    [id |-> id, categoryId |-> categoryId, timeRangeFrom |-> timeRangeFrom,
     originalFilename |-> originalFilename]

\* A ResearchSeries document
Doc(dataset, metric, bucket, value, unit, sourceSheet) ==
    [datasetId |-> dataset.id, categoryId |-> dataset.categoryId, metric |-> metric,
     bucket |-> bucket, value |-> value, unit |-> unit, sourceSheet |-> sourceSheet,
     sampleSize |-> Undef, sampleType |-> Undef, feePercent |-> Undef, basePrice |-> Undef]

SampleDoc(dataset, metric, bucket, value, unit, sampleSize, sampleType) ==
    [Doc(dataset, metric, bucket, value, unit, "Market Analysis")
        EXCEPT !.sampleSize = Num(sampleSize), !.sampleType = Str(sampleType)]

\* What a handler hands to res: the HTTP status, the error text and the
\* documents it built
Result(status, error, docs) == [status |-> status, error |-> error, docs |-> docs]

IsWordChar(c) == IsLowerLetter(c) \/ IsDigit(c) \/ c = "_" \/ c \in UpperSet

\* s.substring(a - 1, b), empty outside the string
Sub(s, a, b) == IF a >= 1 /\ b <= Len(s) /\ a <= b THEN SubSeq(s, a, b) ELSE ""

\* /\bavg\.?\s+word\b/.test(l)
AvgWordRegex(l, word) ==
    /\ Includes(l, "avg") /\ Includes(l, word)
    /\ \E i \in 1..Len(l) : \E d \in {0, 1} : \E k \in 1..Len(l) :
        LET st == i + 3 + d + k
        IN  /\ Sub(l, i, i + 2) = "avg"
            /\ (i = 1 \/ ~IsWordChar(CharAt(l, i - 1)))
            /\ (d = 1 => Sub(l, i + 3, i + 3) = ".")
            /\ \A j \in (i + 3 + d)..(st - 1) : Sub(l, j, j) = " "
            /\ Sub(l, st, st + Len(word) - 1) = word
            /\ (st + Len(word) > Len(l) \/ ~IsWordChar(CharAt(l, st + Len(word))))

IsSalesHeader(h) ==
    LET l == ToLower(h)
    IN  Includes(l, "avg. monthly unit sales") \/ Includes(l, "avg monthly unit sales")
IsRevenueHeader(h) ==
    LET l == ToLower(h)
    IN  \/ Includes(l, "avg. monthly revenue") \/ Includes(l, "avg monthly revenue")
        \/ Includes(l, "avg. monthly revenue($)")
IsTimeHeader(h) ==
    LET l == ToLower(h)
    IN  \/ Includes(l, "month") \/ Includes(l, "date")
        \/ Includes(l, "period") \/ Includes(l, "time")
IsSampleSizeHeader(h) ==
    LET l == ToLower(h)
    IN  Includes(l, "sample size") \/ Includes(l, "sample_size") \/ Includes(l, "samplesize")
IsSampleTypeHeader(h) ==
    LET l == ToLower(h)
    IN  Includes(l, "sample type") \/ Includes(l, "sample_type") \/ Includes(l, "sampletype")
IsPriceHeader(h) ==
    LET l == ToLower(h)
    IN  Includes(l, "avg. price") \/ Includes(l, "avg price") \/ Includes(l, "avg. price($)")
IsRatingsHeader(h) ==
    LET l == ToLower(h)
    IN  Includes(l, "avg. ratings") \/ Includes(l, "avg ratings") \/ AvgWordRegex(l, "ratings")
\* The singular predicate without the exclusion of the plural
IsRatingHeaderWithoutExclusion(h) ==
    LET l == ToLower(h)
    IN  Includes(l, "avg. rating") \/ Includes(l, "avg rating") \/ AvgWordRegex(l, "rating")

IsRatingHeader(h) ==
    LET l == ToLower(h)
    IN  /\ Includes(l, "avg. rating") \/ Includes(l, "avg rating") \/ AvgWordRegex(l, "rating")
        /\ ~Includes(l, "ratings")

\* The column indexes (from 1, 0 when not found) in the order the handler
\* resolves them
MarketAnalysisColumns(header) ==
    [sales |-> FindIndex(header, IsSalesHeader),
     revenue |-> FindIndex(header, IsRevenueHeader),
     time |-> FindIndex(header, IsTimeHeader),
     sampleSize |-> FindIndex(header, IsSampleSizeHeader),
     sampleType |-> FindIndex(header, IsSampleTypeHeader),
     price |-> FindIndex(header, IsPriceHeader),
     ratings |-> FindIndex(header, IsRatingsHeader),
     rating |-> FindIndex(header, IsRatingHeader)]

\* The error of the first required column that is missing, "" when none is
MarketAnalysisMissingColumn(cols) ==
    IF cols.sales = 0 THEN "Avg. Monthly Unit Sales column not found in Market Analysis sheet"
    ELSE IF cols.revenue = 0
    THEN "Avg. Monthly Revenue($) column not found in Market Analysis sheet"
    ELSE IF cols.time = 0 THEN "Time column not found in Market Analysis sheet"
    ELSE IF cols.sampleSize = 0 THEN "Sample Size column not found in Market Analysis sheet"
    ELSE IF cols.sampleType = 0 THEN "Sample Type column not found in Market Analysis sheet"
    ELSE IF cols.price = 0 THEN "Avg. Price($) column not found in Market Analysis sheet"
    ELSE IF cols.ratings = 0 THEN "Avg. Ratings column not found in Market Analysis sheet"
    ELSE IF cols.rating = 0 THEN "Avg. Rating column not found in Market Analysis sheet"
    ELSE ""

\* /[,$\s]/g and /[,\s]/g
MoneyFormatChars == {",", "$", " "}
CountFormatChars == {",", " "}

\* A numeric cell: a string is stripped of formatting and parsed
ParseCell(raw, formatChars) ==
    IF IsStr(raw) THEN ParseFloat(RemoveChars(raw.s, formatChars)) ELSE raw

\* isNaN(x) || x <= 0
NotPositive(v) == ~IsNum(v) \/ v.n <= 0

\* /^all$/i.test(sampleTypeStr)
IsAllSampleAnyType(sampleTypeStr) == TRUE
IsAllSample(sampleTypeStr) == ToLower(sampleTypeStr) = "all"

\* dataset.timeRange?.from || 'overall'
DatasetBucket(dataset) == IF dataset.timeRangeFrom # "" THEN dataset.timeRangeFrom ELSE "overall"

\* Number(latestFbaFeeUsd) || 0
FbaFeeOrZero(latestFbaFeeUsd) == IF IsNum(latestFbaFeeUsd) THEN latestFbaFeeUsd.n ELSE 0

\* The derived records with roi taken over the price
DerivedDocsRoiOverPrice(dataset, bucket, priceValue, referralFeeValue, latestFbaFeeUsd) ==
    LET feeSum == (IF IsNum(referralFeeValue) THEN referralFeeValue.n ELSE 0)
                  + FbaFeeOrZero(latestFbaFeeUsd)
        profitDollar == priceValue - (Mul(20, priceValue) + feeSum + Mul(20, priceValue))
        marginPct == (profitDollar * 100 * Scale) \div priceValue
    IN  << Doc(dataset, "cogs_cap", bucket, profitDollar, "usd", "Derived"),
           Doc(dataset, "profit", bucket, profitDollar, "usd", "Derived"),
           Doc(dataset, "margin", bucket, marginPct, "pct", "Derived"),
           Doc(dataset, "roi", bucket, marginPct, "pct", "Derived") >>

\* cogs_cap, profit, margin and roi of one row (lines 2860-2918)
DerivedDocs(dataset, bucket, priceValue, referralFeeValue, latestFbaFeeUsd) ==
    LET ads == Mul(20, priceValue)
        profitTarget == Mul(20, priceValue)
        feeSum == (IF IsNum(referralFeeValue) THEN referralFeeValue.n ELSE 0)
                  + FbaFeeOrZero(latestFbaFeeUsd)
        cogsCap == priceValue - (ads + feeSum + profitTarget)
        cogsAssumed == Mul(20, priceValue)
        profitDollar == priceValue - (ads + feeSum + cogsAssumed)
        marginPct == IF priceValue > 0 THEN (profitDollar * 100 * Scale) \div priceValue ELSE 0
        roiPct == IF cogsAssumed > 0 THEN (profitDollar * 100 * Scale) \div cogsAssumed ELSE 0
    IN  << Doc(dataset, "cogs_cap", bucket, cogsCap, "usd", "Derived"),
           Doc(dataset, "profit", bucket, profitDollar, "usd", "Derived"),
           Doc(dataset, "margin", bucket, marginPct, "pct", "Derived"),
           Doc(dataset, "roi", bucket, roiPct, "pct", "Derived") >>

\* The documents of a row of the All sample whose cells are all present; v
\* holds the parsed cells
MarketAnalysisValueDocs(dataset, sampleTypeStr, v, latestFbaFeeUsd, cat, rules) ==
    IF \E k \in DOMAIN v : NotPositive(v[k]) THEN <<>>
    ELSE Bind(ReferralFee(cat, rules, v.price.n), LAMBDA fee :
         LET bucket == DatasetBucket(dataset)
             sample(metric, value, unit, size) ==
                 SampleDoc(dataset, metric, bucket, value, unit, size, sampleTypeStr)
         IN  << sample("sales_units", Mul(v.sales.n, v.sampleSize.n), "units", v.sampleSize.n),
                sample("revenue", v.revenue.n * 100, "usd", 100 * Scale),
                sample("avg_price", v.price.n, "usd", v.sampleSize.n) >>
             \o (IF ~IsNullish(fee.value)
                 THEN << [sample("referral_fee", fee.value.n, "usd", v.sampleSize.n)
                            EXCEPT !.feePercent = fee.percent, !.basePrice = v.price] >>
                 ELSE <<>>)
             \o DerivedDocs(dataset, bucket, v.price.n, fee.value, latestFbaFeeUsd)
             \o << sample("avg_ratings", v.ratings.n, "count", v.sampleSize.n),
                   sample("avg_rating", v.rating.n, "count", v.sampleSize.n) >>)

\* The documents of one data row, <<>> when the row is skipped
MarketAnalysisRowDocs(dataset, row, cols, latestFbaFeeUsd, cat, rules) ==
    Bind(Trim(StringOrEmpty(CellAt(row, cols.sampleType))), LAMBDA sampleTypeStr :
        IF ~IsAllSample(sampleTypeStr) THEN <<>>
        ELSE IF \E k \in DOMAIN cols : IsNullish(CellAt(row, cols[k])) THEN <<>>
        ELSE MarketAnalysisValueDocs(
                 dataset, sampleTypeStr,
                 [sales |-> ParseCell(CellAt(row, cols.sales), MoneyFormatChars),
                  revenue |-> ParseCell(CellAt(row, cols.revenue), MoneyFormatChars),
                  sampleSize |-> ParseCell(CellAt(row, cols.sampleSize), MoneyFormatChars),
                  price |-> ParseCell(CellAt(row, cols.price), MoneyFormatChars),
                  ratings |-> ParseCell(CellAt(row, cols.ratings), CountFormatChars),
                  rating |-> ParseCell(CellAt(row, cols.rating), CountFormatChars)],
                 latestFbaFeeUsd, cat, rules))

\* docs after the rows r, r + 1, ... (0-based) of the sheet
RECURSIVE MarketAnalysisRows(_, _, _, _, _, _, _)
MarketAnalysisRows(dataset, rows, r, cols, latestFbaFeeUsd, cat, rules) ==
    IF r >= Len(rows) THEN <<>>
    ELSE MarketAnalysisRowDocs(dataset, rows[r + 1], cols, latestFbaFeeUsd, cat, rules)
         \o MarketAnalysisRows(dataset, rows, r + 1, cols, latestFbaFeeUsd, cat, rules)

\* handleMarketAnalysisSheet up to its first write: header is the header row
\* the caller passes, latestFbaFeeUsd, cat and rules what the handler reads
\* from the store.  status 200 means docs are to be written.
MarketAnalysisParse(dataset, rows, header, latestFbaFeeUsd, cat, rules) ==
    Bind(HeaderRowIdx(rows, EXPECTED_MARKET_COL_KEYS), LAMBDA headerRowIdx :
    Bind(MarketAnalysisColumns(IF headerRowIdx # 0 THEN HeaderOf(rows, headerRowIdx)
                               ELSE header), LAMBDA cols :
    Bind(MarketAnalysisMissingColumn(cols), LAMBDA missing :
        IF missing # "" THEN Result(400, missing, <<>>)
        ELSE Bind(MarketAnalysisRows(dataset, rows, headerRowIdx + 1, cols, latestFbaFeeUsd,
                                     cat, rules), LAMBDA docs :
             IF docs = <<>>
             THEN Result(400, "No valid data found in Market Analysis sheet", <<>>)
             ELSE Result(200, "", docs)))))

MaxDataRows == 2

MarketSheetHeader ==
    << Str("Time"), Str("Avg. Monthly Unit Sales"), Str("Avg. Monthly Revenue($)"),
       Str("Sample Size"), Str("Sample Type"), Str("Avg. Price($)"), Str("Avg. Ratings"),
       Str("Avg. Rating") >>

\* A data row in the column order of MarketSheetHeader.  valid: the sample
\* type is All and every required field is present and positive; units and
\* usd: Avg. Monthly Unit Sales x Sample Size and Avg. Monthly Revenue x 100.
MarketRow(time, sales, revenue, size, type, price, ratings, rating, valid, units, usd) ==
    [cells |-> <<time, sales, revenue, size, type, price, ratings, rating>>,
     valid |-> valid, units |-> units, usd |-> usd]

MarketRowKinds ==
    { MarketRow(Str("2025-08"), Num(120 * Scale), Num(30 * Scale), Num(500 * Scale), Str("All"),
                Num(20 * Scale), Num(1500 * Scale), Num(450), TRUE, 60000 * Scale,
                3000 * Scale),
      MarketRow(Str("2025-08"), Str("1,200"), Str("$45.5"), Str("50"), Str(" all "),
                Str("$ 25"), Str("2,000"), Str("4.2"), TRUE, 60000 * Scale, 4550 * Scale),
      MarketRow(Str(""), Num(10 * Scale), Num(7 * Scale), Num(3 * Scale), Str("ALL"),
                Num(5 * Scale), Num(40 * Scale), Num(380), TRUE, 30 * Scale, 700 * Scale),
      MarketRow(Str("2025-08"), Num(300 * Scale), Num(90 * Scale), Num(50 * Scale),
                Str("Top 50"), Num(20 * Scale), Num(1500 * Scale), Num(450), FALSE, 0, 0),
      MarketRow(Str("2025-08"), Num(300 * Scale), Num(90 * Scale), Num(50 * Scale),
                Str("Overall"), Num(20 * Scale), Num(1500 * Scale), Num(450), FALSE, 0, 0),
      MarketRow(Str("2025-08"), Num(300 * Scale), Num(90 * Scale), Num(50 * Scale),
                Null, Num(20 * Scale), Num(1500 * Scale), Num(450), FALSE, 0, 0),
      MarketRow(Str("2025-08"), Null, Num(30 * Scale), Num(500 * Scale), Str("All"),
                Num(20 * Scale), Num(1500 * Scale), Num(450), FALSE, 0, 0),
      MarketRow(Str("2025-08"), Num(0), Num(30 * Scale), Num(500 * Scale), Str("All"),
                Num(20 * Scale), Num(1500 * Scale), Num(450), FALSE, 0, 0),
      MarketRow(Str("2025-08"), Num(120 * Scale), Str("n/a"), Num(500 * Scale), Str("All"),
                Num(20 * Scale), Num(1500 * Scale), Num(450), FALSE, 0, 0),
      MarketRow(Str("2025-08"), Num(120 * Scale), Num(30 * Scale), Num(500 * Scale), Str("All"),
                Num(0 - 20 * Scale), Num(1500 * Scale), Num(450), FALSE, 0, 0),
      MarketRow(Str("2025-08"), Num(120 * Scale), Num(30 * Scale), Num(500 * Scale), Str("All"),
                Num(20 * Scale), Num(1500 * Scale), Str("-"), FALSE, 0, 0),
      MarketRow(Null, Num(120 * Scale), Num(30 * Scale), Num(500 * Scale), Str("All"),
                Num(20 * Scale), Num(1500 * Scale), Num(450), FALSE, 0, 0) }

MarketSheets == UNION {[1..n -> MarketRowKinds] : n \in 0..MaxDataRows}

MaPending == [done |-> FALSE, res |-> Result(0, "", <<>>)]
MaIdle == maRows = <<>> /\ maOut = MaPending
MaInit == maRows \in MarketSheets /\ maOut = MaPending

MaDataset == Dataset("d1", "c1", "2025-08", "US-Market-202508.xlsx")
MaCategory == Category("Home & Kitchen", Undef, Undef, Num(350))

\* The sheet as readSheetAsArray returns it
MarketSheetOf(rowKinds) == <<MarketSheetHeader>> \o [i \in 1..Len(rowKinds) |-> rowKinds[i].cells]

ParseMarketAnalysis ==
    /\ ~maOut.done
    /\ LET rows == MarketSheetOf(maRows)
       IN  maOut' = [done |-> TRUE,
                     res |-> MarketAnalysisParse(MaDataset, rows, HeaderOf(rows, 0),
                                                 MaCategory.fbaFeeUsd, MaCategory,
                                                 TotalWithMinimum)]
    /\ UNCHANGED <<maRows, notMa>>

\* The rows the enrichment is checked on: three valid rows of different
\* prices and a row of another sample
EnrichRowKinds ==
    {k \in MarketRowKinds : k.valid \/ k.cells[5] = Str("Top 50")}
EnrichSheets == UNION {[1..n -> EnrichRowKinds] : n \in 0..MaxDataRows}

\* Categories with and without referral defaults and an FBA fee, no category,
\* and a category look-up that throws
EnrichCategories ==
    { Category("Home & Kitchen", Undef, Undef, Num(350)),
      Category("Home & Kitchen", Num(15), Num(100), Undef),
      Category("Home & Kitchen", Num(8), Undef, Num(350)),
      Category("Home & Kitchen", Num(0), Num(100), Undef),
      Null, Thrown }

EnrichRuleTables ==
    {TwoPortionBands, TotalWithMinimum, OtherCategoryOnly, <<>>, <<Thrown>>}

\* latestFbaFeeUsd as the handler reads it at its start from a store without
\* fba_fee records: the category's fbaFeeUsd when it is a number, 0 without
\* a category or when the read throws
EnrichFbaFee(cat) ==
    IF cat \in {Null, Thrown} THEN Num(0)
    ELSE IF IsNum(cat.fbaFeeUsd) THEN cat.fbaFeeUsd
    ELSE Num(0)

\* handleMarketAnalysisSheet on the sheet maRows with the category and the
\* referral rules of feeIn
ParseWithLookups ==
    /\ ~maOut.done
    /\ maOut' = [done |-> TRUE,
                 res |-> MarketAnalysisParse(MaDataset, MarketSheetOf(maRows),
                                             HeaderOf(MarketSheetOf(maRows), 0),
                                             EnrichFbaFee(feeIn.cat),
                                             feeIn.cat, feeIn.rules)]
    /\ UNCHANGED <<maRows, notMa>>

MaNext == ParseMarketAnalysis

DocsOfMetric(docs, metric) == SelectSeq(docs, LAMBDA d : d.metric = metric)
ValidRows(rowKinds) == SelectSeq(rowKinds, LAMBDA k : k.valid)

\* C7: only rows whose Sample Type is All (any case) with every required
\* field present and positive are ingested; each gives one sales_units
\* record of value Avg. Monthly Unit Sales x Sample Size and one revenue
\* record of value Avg. Monthly Revenue x 100, in row order; every other row
\* gives no record and does not stop the rows after it
C7_MarketAnalysisRows ==
    maOut.done =>
        LET valid == ValidRows(maRows)
            docs == maOut.res.docs
            sales == DocsOfMetric(docs, "sales_units")
            revenue == DocsOfMetric(docs, "revenue")
        IN  /\ Len(sales) = Len(valid) /\ Len(revenue) = Len(valid)
            /\ \A i \in 1..Len(valid) :
                /\ sales[i].value = valid[i].units /\ sales[i].unit = "units"
                /\ revenue[i].value = valid[i].usd /\ revenue[i].unit = "usd"
            /\ \A m \in {"avg_price", "avg_ratings", "avg_rating"} :
                Len(DocsOfMetric(docs, m)) = Len(valid)
            /\ \A i \in 1..Len(docs) :
                docs[i].sourceSheet = "Market Analysis" => ToLower(docs[i].sampleType.s) = "all"
            /\ (valid # <<>>) = (maOut.res.status = 200)

\* the spec's example row between a Top 50 row and a row without sales
C7_Witness ==
    /\ maOut.done /\ Len(maRows) = 2
    /\ ~maRows[1].valid /\ maRows[1].cells[5] = Str("Top 50")
    /\ maRows[2].valid
    /\ maRows[2].cells[2] = Num(120 * Scale) /\ maRows[2].cells[4] = Num(500 * Scale)
    /\ maRows[2].cells[3] = Num(30 * Scale)
    /\ DocsOfMetric(maOut.res.docs, "sales_units")[1].value = 60000 * Scale
    /\ DocsOfMetric(maOut.res.docs, "revenue")[1].value = 3000 * Scale

\* ------------------------------------------------------------------------
\* Summary queries: one value per (metric, month)
\* (GET /research/metrics-summary, GET /research/category/:id)
\* ------------------------------------------------------------------------

\* A stored record as the summary queries read it; createdAt is a clock tick
Stored(value, sampleType, sampleSize, createdAt) ==
    [value |-> value, sampleType |-> sampleType, sampleSize |-> sampleSize,
     createdAt |-> createdAt]

SUMMARY_REQUIRE_ALL == {"sales_units", "revenue", "avg_price", "avg_ratings", "avg_rating"}
CATEGORY_REQUIRE_ALL == SUMMARY_REQUIRE_ALL \cup {"referral_fee"}

\* /^all$/i.test(String(it.sampleType || ''))
IsExactlyAll(sampleType) == ToLower(StringOrEmpty(sampleType)) = "all"
\* /all/i.test(it.sampleType || '')
ContainsAll(sampleType) == Includes(ToLower(StringOrEmpty(sampleType)), "all")
\* Number(it.sampleSize) || 0
SizeOrZero(sampleSize) == IF IsNum(sampleSize) THEN sampleSize.n ELSE 0

\* One pass of the loop over itemsRaw: the record kept for the key after `it`
\* is read while `prev` is kept; prev is Null before the first record
Keep(prev, it) ==
    IF prev = Null THEN it
    ELSE IF ~ContainsAll(prev.sampleType) /\ ContainsAll(it.sampleType) THEN it
    ELSE IF /\ ~ContainsAll(prev.sampleType) /\ ~ContainsAll(it.sampleType)
            /\ SizeOrZero(it.sampleSize) > SizeOrZero(prev.sampleSize)
    THEN it
    ELSE IF it.createdAt > prev.createdAt THEN it ELSE prev

RECURSIVE ByMetricMonth(_, _, _)
ByMetricMonth(items, i, prev) ==
    IF i > Len(items) THEN prev ELSE ByMetricMonth(items, i + 1, Keep(prev, items[i]))

\* The record with the latest createdAt, Null when there is none
Latest(items) ==
    IF items = <<>> THEN Null
    ELSE items[CHOOSE i \in 1..Len(items) :
                  \A j \in 1..Len(items) : items[j].createdAt <= items[i].createdAt]

\* seriesByMetric[metric][month] of metrics-summary for the records of one
\* (metric, month) in the order find() returned them; requested: the metric is
\* named in the metrics parameter.  Null when the key is absent.
MetricsSummaryValue(metric, itemsRaw, requested) ==
    LET filtered == IF metric \in SUMMARY_REQUIRE_ALL
                    THEN SelectSeq(itemsRaw, LAMBDA it : IsExactlyAll(it.sampleType))
                    ELSE itemsRaw
        sel == ByMetricMonth(filtered, 1, Null)
    IN  IF sel # Null THEN Num(sel.value)
        ELSE IF requested /\ Latest(itemsRaw) # Null THEN Num(Latest(itemsRaw).value)
        ELSE Null

\* bucketMetrics.reduce((prev, current) => prev.sampleSize > current.sampleSize ? prev : current)
RECURSIVE ReduceLargest(_, _, _)
ReduceLargest(items, i, prev) ==
    IF i > Len(items) THEN prev
    ELSE ReduceLargest(items, i + 1,
                       IF SizeOrZero(prev.sampleSize) > SizeOrZero(items[i].sampleSize)
                       THEN prev ELSE items[i])

\* The timeSeries value of category/:id for the records of one (metric, bucket)
CategorySeriesValue(metric, bucketMetrics) ==
    IF bucketMetrics = <<>> THEN Null
    ELSE IF metric \in CATEGORY_REQUIRE_ALL
    THEN LET allSample == FindIndex(bucketMetrics,
                                    LAMBDA m : ToLower(StringOf(m.sampleType)) = "all")
         IN  IF allSample # 0 THEN Num(bucketMetrics[allSample].value)
             ELSE Num(ReduceLargest(bucketMetrics, 2, bucketMetrics[1]).value)
    ELSE Num(bucketMetrics[1].value)

MaxRecords == 3

\* Records with distinct values and creation times
StoredPool ==
    { Stored(101, Str("All"), Num(10 * Scale), 1),
      Stored(102, Str("Top 50"), Num(50 * Scale), 2),
      Stored(103, Str("Top 100"), Num(20 * Scale), 3),
      Stored(104, Str("all"), Num(30 * Scale), 4) }

ReconMetrics == {"sales_units", "referral_fee", "cpc"}

\* Every read order of every non-empty set of at most MaxRecords records
ReadOrders ==
    UNION { {s \in [1..n -> StoredPool] : \A i, j \in 1..n : i # j => s[i] # s[j]} :
            n \in 1..Min2(MaxRecords, Cardinality(StoredPool)) }

ReconPending == [query |-> "none", value |-> Null]
ReconIdle == reconIn = [metric |-> "", items |-> <<>>] /\ reconOut = ReconPending
ReconInit ==
    /\ reconIn \in [metric : ReconMetrics, items : ReadOrders]
    /\ reconOut = ReconPending

GetMetricsSummary ==
    /\ reconOut.query = "none"
    /\ \E requested \in BOOLEAN :
        reconOut' = [query |-> "metrics-summary",
                     value |-> MetricsSummaryValue(reconIn.metric, reconIn.items, requested)]
    /\ UNCHANGED <<reconIn, notRecon>>

GetCategory ==
    /\ reconOut.query = "none"
    /\ reconOut' = [query |-> "category",
                    value |-> CategorySeriesValue(reconIn.metric, reconIn.items)]
    /\ UNCHANGED <<reconIn, notRecon>>

ReconNext == GetMetricsSummary \/ GetCategory

ItemSet(items) == {items[i] : i \in 1..Len(items)}

\* The records that rank first: the All records when there is one, otherwise
\* the most recent of the records with the largest sampleSize
RankedFirst(items) ==
    LET all == {it \in ItemSet(items) : IsExactlyAll(it.sampleType)}
        largest == {it \in ItemSet(items) :
                      \A o \in ItemSet(items) : o.sampleSize.n <= it.sampleSize.n}
    IN  IF all # {} THEN all
        ELSE {it \in largest : \A o \in largest : o.createdAt <= it.createdAt}

\* C4: whatever the read order, metrics-summary reports the value of a record
\* that ranks first (All, then largest sampleSize, then most recent)
C4_SummaryReportsRankedFirst ==
    reconOut.query = "metrics-summary" =>
        \E it \in RankedFirst(reconIn.items) : reconOut.value = Num(it.value)

\* ------------------------------------------------------------------------
\* Market-research sheet: weight chain, size tier and FBA fee
\* (handleMarketResearchWeightSheet)
\* ------------------------------------------------------------------------
\* Lengths are held in hundredths of an inch and volumes in hundredths of a
\* cubic inch.  Dimensional and shipping weights are held in units of
\* 1 / (DimDivisor * Scale) lb, in which volume / 139 is exact; every
\* comparison of the handler is made on cross-multiplied integers.  The
\* handler's 1e-6 tolerance is below one such unit and does not change a
\* comparison.

DimDivisor == 139
OzPerLb == 16
CmPerInch == 254
CubeScale == Scale * Scale
MaxSide == 12 * Scale

\* Math.cbrt(x) for x in hundredths of a cubic inch, in hundredths of an
\* inch, rounded down
Cbrt(x) ==
    CHOOSE s \in 0..MaxSide :
        s * s * s <= x * CubeScale /\ (s + 1) * (s + 1) * (s + 1) > x * CubeScale

\* a weight of lb hundredths of a pound in weight units
WeightUnits(lb) == lb * DimDivisor

NumberChars == "0123456789.-"

\* parseNum(val)
ParseNum(val) ==
    IF IsNumberType(val) THEN val
    ELSE Bind(NumberOfString(KeepChars(StringOf(val), NumberChars)),
              LAMBDA n : IF IsNum(n) THEN n ELSE Null)

IsBlank(v) == IsNullish(v) \/ v = Str("")

\* The loop over the data rows from the 0-based row r: the weight and volume
\* of the first row that holds both, [w, v] with Null for a value never parsed
RECURSIVE FirstWeightAndVolume(_, _, _, _, _, _)
FirstWeightAndVolume(rows, r, weightIdx, volumeIdx, avgWeightLb, avgVolumeIn3) ==
    IF r >= Len(rows) THEN [w |-> avgWeightLb, v |-> avgVolumeIn3]
    ELSE LET w == CellAt(rows[r + 1], weightIdx)
             v == CellAt(rows[r + 1], volumeIdx)
         IN  IF IsBlank(w) \/ IsBlank(v)
             THEN FirstWeightAndVolume(rows, r + 1, weightIdx, volumeIdx, avgWeightLb,
                                       avgVolumeIn3)
             ELSE Bind(ParseNum(w), LAMBDA pw :
                  Bind(ParseNum(v), LAMBDA pv :
                      IF ~IsNullish(pw) /\ ~IsNullish(pv) THEN [w |-> pw, v |-> pv]
                      ELSE FirstWeightAndVolume(rows, r + 1, weightIdx, volumeIdx, pw, pv)))

\* Math.max(avgWeightLb, dimensionalWeight), in weight units
ShippingWeightActualOnly(avgWeightLb, dimensionalWeight) == WeightUnits(avgWeightLb)
ShippingWeight(avgWeightLb, dimensionalWeight) ==
    Max2(WeightUnits(avgWeightLb), dimensionalWeight)

\* side, dimensionalWeight, shippingWeight and dims of a weight and a volume
WeightChain(avgWeightLb, avgVolumeIn3) ==
    LET side == Cbrt(Max2(0, avgVolumeIn3))
        dimensionalWeight == (side * side * side) \div CubeScale
        shippingWeight == ShippingWeight(avgWeightLb, dimensionalWeight)
    IN  [side |-> side, dimensionalWeight |-> dimensionalWeight,
         shippingWeight |-> shippingWeight,
         dims |-> [longest |-> side, median |-> side, shortest |-> side,
                   lengthGirth |-> side + 2 * (side + side)]]

SizeTierRule(tier, longestMax, medianMax, shortestMax, lengthGirthMax, shippingWeightMax,
             unitLength, unitWeight) ==
    [tier |-> tier, longestMax |-> longestMax, medianMax |-> medianMax,
     shortestMax |-> shortestMax, lengthGirthMax |-> lengthGirthMax,
     shippingWeightMax |-> shippingWeightMax, unitLength |-> unitLength,
     unitWeight |-> unitWeight]

\* max == null || dim <= inFrom(max, unit) + 1e-6
FitsLength(dim, max, unit) ==
    \/ IsNullish(max)
    \/ IF unit = "cm" THEN dim * CmPerInch <= max.n * Scale ELSE dim <= max.n

\* max == null || shippingWeight <= lbFrom(max, unit) + 1e-6
FitsWeight(shippingWeight, max, unit) ==
    \/ IsNullish(max)
    \/ IF unit = "oz" THEN shippingWeight * OzPerLb <= WeightUnits(max.n)
       ELSE shippingWeight <= WeightUnits(max.n)

TierFits(rule, chain) ==
    /\ FitsLength(chain.dims.longest, rule.longestMax, rule.unitLength)
    /\ FitsLength(chain.dims.median, rule.medianMax, rule.unitLength)
    /\ FitsLength(chain.dims.shortest, rule.shortestMax, rule.unitLength)
    /\ FitsLength(chain.dims.lengthGirth, rule.lengthGirthMax, rule.unitLength)
    /\ FitsWeight(chain.shippingWeight, rule.shippingWeightMax, rule.unitWeight)

\* The tier of the last rule that fits
MatchedTierLastFit(allTiers, chain) ==
    LET fits == {i \in 1..Len(allTiers) : TierFits(allTiers[i], chain)}
    IN  IF fits = {} THEN "" ELSE allTiers[CHOOSE i \in fits : \A j \in fits : j <= i].tier

\* The tier of the first rule that fits, "" when none does
MatchedTier(allTiers, chain) ==
    LET i == FindIndex(allTiers, LAMBDA rule : TierFits(rule, chain))
    IN  IF i = 0 THEN "" ELSE allTiers[i].tier

\* normalizeTierName(t)
NormalizeTierName(t) ==
    LET s == ToLower(t)
    IN  IF Includes(s, "small") /\ Includes(s, "standard") THEN "Small Standard"
        ELSE IF Includes(s, "large") /\ Includes(s, "standard") THEN "Large Standard"
        ELSE IF Includes(s, "oversize") \/ Includes(s, "over size") THEN "Oversize"
        ELSE t

\* /a\s*.*\s*b/i.test(s): a, and b somewhere after it
IncludesInOrder(s, a, b) ==
    \E i \in 1..(Len(s) - Len(a) + 1) :
        /\ SubSeq(ToLower(s), i, i + Len(a) - 1) = a
        /\ Includes(ToLower(SubSeq(s, i + Len(a), Len(s))), b)

TierRegexMatch(matchedTier, tier) ==
    LET s == ToLower(matchedTier)
    IN  IF Includes(s, "small") /\ Includes(s, "standard")
        THEN IncludesInOrder(tier, "small", "standard")
        ELSE IF Includes(s, "large") /\ Includes(s, "standard")
        THEN IncludesInOrder(tier, "large", "standard")
        ELSE IF Includes(s, "oversize") \/ Includes(s, "over size")
        THEN IncludesInOrder(tier, "over", "size")
        ELSE FALSE

\* FbaFeeRule.find({tier: normalizedTier}), with the regex fallback
FeeRulesOfTier(fbaFeeRules, matchedTier) ==
    Bind(SelectSeq(fbaFeeRules, LAMBDA rule : rule.tier = NormalizeTierName(matchedTier)),
         LAMBDA exact :
             IF exact # <<>> THEN exact
             ELSE SelectSeq(fbaFeeRules, LAMBDA rule : TierRegexMatch(matchedTier, rule.tier)))

OverageRule(overThresholdValue, overThresholdUnit, stepValue, stepFeeUSD) ==
    [overThresholdValue |-> overThresholdValue, overThresholdUnit |-> overThresholdUnit,
     stepValue |-> stepValue, stepFeeUSD |-> stepFeeUSD]

FbaFeeRule(tier, unit, weightMin, weightMax, feeUSD, baseUSD, overageRules) ==
    [tier |-> tier, unit |-> unit, weightMin |-> weightMin, weightMax |-> weightMax,
     feeUSD |-> feeUSD, baseUSD |-> baseUSD, overageRules |-> overageRules]

\* toUnit(lb, unit), in weight units of the unit
ToUnit(shippingWeight, unit) == IF unit = "oz" THEN shippingWeight * OzPerLb ELSE shippingWeight

\* Math.ceil(a / b) for a > 0, b > 0
CeilDiv(a, b) == (a + b - 1) \div b

RECURSIVE OverageTotal(_, _, _, _)
OverageTotal(overageRules, i, shippingWeight, total) ==
    IF i > Len(overageRules) THEN total
    ELSE LET over == overageRules[i]
             current == ToUnit(shippingWeight, over.overThresholdUnit)
             overage == current - WeightUnits(over.overThresholdValue)
             steps == CeilDiv(overage, WeightUnits(over.stepValue))
         IN  OverageTotal(overageRules, i + 1, shippingWeight,
                          IF overage > 0 THEN total + steps * over.stepFeeUSD ELSE total)

\* w >= min && w <= max for the rule's band
InWeightBand(rule, shippingWeight) ==
    LET w == ToUnit(shippingWeight, IF IsNullish(rule.unit) THEN "oz" ELSE rule.unit.s)
    IN  /\ w >= WeightUnits(NumOrZero(rule.weightMin))
        /\ (IsNullish(rule.weightMax) \/ w <= WeightUnits(rule.weightMax.n))

\* The fee of the first rule whose band holds the weight, Null when there is
\* none or the rule carries no fee
FbaFeeOf(feeRules, shippingWeight) ==
    Bind(FindIndex(feeRules, LAMBDA rule : InWeightBand(rule, shippingWeight)), LAMBDA i :
        IF i = 0 THEN Null
        ELSE IF ~IsNullish(feeRules[i].feeUSD) THEN feeRules[i].feeUSD
        ELSE IF ~IsNullish(feeRules[i].baseUSD) /\ feeRules[i].overageRules # <<>>
        THEN Num(OverageTotal(feeRules[i].overageRules, 1, shippingWeight,
                              feeRules[i].baseUSD.n))
        ELSE Null)

NoChain == [side |-> 0, dimensionalWeight |-> 0, shippingWeight |-> 0,
            dims |-> [longest |-> 0, median |-> 0, shortest |-> 0, lengthGirth |-> 0]]

Weighed(status, error, avgWeightLb, avgVolumeIn3, chain, tier, feeUSD) ==
    [status |-> status, error |-> error, avgWeightLb |-> avgWeightLb,
     avgVolumeIn3 |-> avgVolumeIn3, chain |-> chain, tier |-> tier, feeUSD |-> feeUSD]

\* handleMarketResearchWeightSheet up to its first write; status 200 means
\* the fee was resolved and the writes follow
MarketResearchWeigh(rows, allTiers, fbaFeeRules) ==
    Bind(HeaderRowIdx(rows, EXPECTED_KEYS), LAMBDA headerRowIdx :
    Bind(HeaderOf(rows, headerRowIdx), LAMBDA hdr :
    Bind(FindIndex(hdr, LAMBDA h : IncludesAny(ToLower(h), {"avg.weight", "avg weight"})),
         LAMBDA weightIdx :
    Bind(FindIndex(hdr, LAMBDA h : IncludesAny(ToLower(h), {"avg.volume", "avg volume"})),
         LAMBDA volumeIdx :
        IF weightIdx = 0 \/ volumeIdx = 0
        THEN Weighed(400, "Avg.Weight(pounds) or Avg.Volume(in3) column not found", Null, Null,
                     NoChain, "", Null)
        ELSE
    Bind(FirstWeightAndVolume(rows, headerRowIdx + 1, weightIdx, volumeIdx, Null, Null),
         LAMBDA first :
        IF IsNullish(first.w) \/ IsNullish(first.v)
        THEN Weighed(400, "No valid Avg.Weight/Avg.Volume values found", first.w, first.v,
                     NoChain, "", Null)
        ELSE
    Bind(WeightChain(first.w.n, first.v.n), LAMBDA chain :
    Bind(MatchedTier(allTiers, chain), LAMBDA matchedTier :
        IF matchedTier = ""
        THEN Weighed(400, "No size tier matches given Avg.Weight/Avg.Volume", first.w, first.v,
                     chain, "", Null)
        ELSE
    Bind(FeeRulesOfTier(fbaFeeRules, matchedTier), LAMBDA feeRules :
    Bind(NormalizeTierName(matchedTier), LAMBDA normalizedTier :
        IF feeRules = <<>>
        THEN Weighed(400, "No FBA fee rules found for tier " \o matchedTier, first.w, first.v, chain,
                     normalizedTier, Null)
        ELSE
    Bind(FbaFeeOf(feeRules, chain.shippingWeight), LAMBDA feeUSD :
        IF IsNullish(feeUSD)
        THEN Weighed(400, "No matching weight band in FBA fee rules", first.w, first.v, chain,
                     normalizedTier, Null)
        ELSE Weighed(200, "", first.w, first.v, chain, normalizedTier, feeUSD)))))))))))

WeightSheetHeader == <<Str("Category"), Str("Avg.Weight(pounds)"), Str("Avg.Volume(in3)")>>
WeightSheetTitle == <<Str("Market-research(1)-US"), Null, Null>>
WeightRow(w, v) == <<Str("Kitchen"), w, v>>

\* The layouts a sheet with the summary row (w, v) comes in
WeightLayouts(w, v) ==
    { <<WeightSheetHeader, WeightRow(w, v)>>,
      <<WeightSheetTitle, WeightSheetHeader, WeightRow(w, v)>>,
      <<WeightSheetHeader, WeightRow(Null, Null), WeightRow(w, v)>>,
      <<WeightSheetHeader, WeightRow(Num(9 * Scale), Str("")), WeightRow(w, v)>>,
      <<WeightSheetHeader, WeightRow(Str("1-2"), Str("5")), WeightRow(w, v)>>,
      <<WeightSheetHeader, WeightRow(w, v), WeightRow(Num(90 * Scale), Num(1 * Scale))>>,
      <<WeightSheetHeader,
        WeightRow(Str(StringOf(w) \o " lb"), Str(" " \o StringOf(v) \o " cu in"))>> }

\* Weights in hundredths of a pound; volumes of cubes with a side of 0, 1, 2,
\* 4, 8, 10 and 12 inches, and a negative volume
SheetWeights == {24, 1 * Scale, 3 * Scale, 4 * Scale + 10, 25 * Scale, 80 * Scale}
CubeSides == {0, 1, 2, 4, 8, 10, 12}
SheetVolumes == {s * s * s * Scale : s \in CubeSides} \cup {0 - 8 * Scale}

AllTiers ==
    << SizeTierRule("Small standard-size", Num(15 * Scale), Num(12 * Scale), Num(75), Null,
                    Num(16 * Scale), "in", "oz"),
       SizeTierRule("Large standard-size", Num(18 * Scale), Num(14 * Scale), Num(8 * Scale),
                    Null, Num(20 * Scale), "in", "lb"),
       SizeTierRule("Small oversize", Num(15240), Num(3048), Null, Num(33020),
                    Num(70 * Scale), "cm", "lb") >>

FbaFeeRules ==
    << FbaFeeRule("Small Standard", Str("oz"), Num(0), Num(16 * Scale), Num(322), Null, <<>>),
       FbaFeeRule("Large Standard", Str("oz"), Num(0), Num(16 * Scale), Num(386), Null, <<>>),
       FbaFeeRule("Large Standard", Str("lb"), Num(1 * Scale), Num(3 * Scale), Num(577), Null,
                  <<>>),
       FbaFeeRule("Large Standard", Str("lb"), Num(3 * Scale), Null, Null, Num(725),
                  <<OverageRule(3 * Scale, "lb", 50, 16)>>),
       FbaFeeRule("Small Oversize", Undef, Undef, Null, Null, Num(973),
                  <<OverageRule(16 * Scale, "oz", 16 * Scale, 42)>>) >>

WtPending == [done |-> FALSE, res |-> Weighed(0, "", Null, Null, NoChain, "", Null)]
WtIdle ==
    /\ wtIn = [rows |-> <<>>, w |-> 0, v |-> 0, allTiers |-> <<>>, fbaFeeRules |-> <<>>]
    /\ wtOut = WtPending
WtInit ==
    /\ \E w \in SheetWeights, v \in SheetVolumes :
        \E rows \in WeightLayouts(Num(w), Num(v)) :
            wtIn = [rows |-> rows, w |-> w, v |-> v, allTiers |-> AllTiers,
                    fbaFeeRules |-> FbaFeeRules]
    /\ wtOut = WtPending

WeighMarketResearch ==
    /\ ~wtOut.done
    /\ wtOut' = [done |-> TRUE, res |-> MarketResearchWeigh(wtIn.rows, wtIn.allTiers,
                                                  wtIn.fbaFeeRules)]
    /\ UNCHANGED <<wtIn, notWt>>

WtNext == WeighMarketResearch

\* The result for the sheet that holds nothing but the header and the row (w, v)
WeighedAlone(w, v) ==
    MarketResearchWeigh(<<WeightSheetHeader, WeightRow(Num(w), Num(v))>>, AllTiers, FbaFeeRules)

\* C9: for the first row with both weight w and volume v >= 0:
\* side^3 = v, dimensionalWeight = v / 139, shippingWeight is the larger of
\* w and dimensionalWeight, the three dimensions are side and lengthGirth is
\* 5 x side; the tier and the fee depend on (w, v) only, whatever the layout
\* of the sheet around that row
C9_WeightChain ==
    wtOut.done /\ wtIn.v >= 0 =>
        LET chain == wtOut.res.chain
        IN  /\ wtOut.res.avgWeightLb = Num(wtIn.w) /\ wtOut.res.avgVolumeIn3 = Num(wtIn.v)
            /\ chain.side * chain.side * chain.side = wtIn.v * CubeScale
            /\ chain.dimensionalWeight * DimDivisor = WeightUnits(wtIn.v)
            /\ chain.shippingWeight \in {WeightUnits(wtIn.w), chain.dimensionalWeight}
            /\ chain.shippingWeight >= WeightUnits(wtIn.w)
            /\ chain.shippingWeight >= chain.dimensionalWeight
            /\ chain.dims.longest = chain.side /\ chain.dims.median = chain.side
            /\ chain.dims.shortest = chain.side /\ chain.dims.lengthGirth = 5 * chain.side
            /\ wtOut.res.tier = WeighedAlone(wtIn.w, wtIn.v).tier
            /\ wtOut.res.feeUSD = WeighedAlone(wtIn.w, wtIn.v).feeUSD
            /\ wtOut.res.status = WeighedAlone(wtIn.w, wtIn.v).status

\* 0.24 lb and 64 cubic inches under a title row: a 4 inch cube whose
\* dimensional weight 64 / 139 lb exceeds the actual weight, Large Standard
C9_Witness ==
    /\ wtOut.done /\ wtIn.w = 24 /\ wtIn.v = 64 * Scale /\ Len(wtIn.rows) = 3
    /\ wtIn.rows[1] = WeightSheetTitle
    /\ wtOut.res.chain.side = 4 * Scale
    /\ wtOut.res.chain.shippingWeight = 64 * Scale
    /\ wtOut.res.chain.shippingWeight > WeightUnits(wtIn.w)
    /\ wtOut.res.tier = "Large Standard" /\ wtOut.res.feeUSD = Num(386)

\* ------------------------------------------------------------------------
\* Fulfillment, Publication Time, Origin of Seller, Listing Concentration
\* ------------------------------------------------------------------------

RECURSIVE Flatten(_)
Flatten(seqs) == IF seqs = <<>> THEN <<>> ELSE Head(seqs) \o Flatten(Tail(seqs))

\* The data rows rows[1], rows[2], ... (0-based) of a sheet
DataRowsOf(rows) == IF Len(rows) <= 1 THEN <<>> ELSE Tail(rows)

RECURSIVE SumSeq(_)
SumSeq(ns) == IF ns = <<>> THEN 0 ELSE Head(ns) + SumSeq(Tail(ns))

\* type.replace(/[^a-z]/g, '') and the mapping onto the four codes
FulfillmentCode(rawType) ==
    LET code == KeepChars(ToLower(Trim(StringOf(rawType))), LowerChars)
    IN  IF Includes(code, "fba") THEN "fba"
        ELSE IF Includes(code, "fbm") THEN "fbm"
        ELSE IF Includes(code, "amz") THEN "amz"
        ELSE code

FulfillmentRowDocs(dataset, row, fulfillIdx, propIdx) ==
    Bind(CellAt(row, fulfillIdx), LAMBDA rawType :
    Bind(FulfillmentPct(CellAt(row, propIdx)), LAMBDA pct :
        IF IsBlank(rawType) \/ IsNull(pct) THEN <<>>
        ELSE << Doc(dataset, "fulfillment_" \o FulfillmentCode(rawType), "overall", pct.n,
                    "pct", "Fulfillment") >>))

\* The records of the data rows, in row order
FulfillmentDocs(dataset, data, fulfillIdx, propIdx) ==
    Flatten([r \in 1..Len(data) |-> FulfillmentRowDocs(dataset, data[r], fulfillIdx, propIdx)])

\* handleFulfillmentSheet up to its first write
FulfillmentParse(dataset, rows, header) ==
    Bind(FindIndex(header, LAMBDA h : Includes(ToLower(h), "fulfillment")), LAMBDA fulfillIdx :
    Bind(FindIndex(header, LAMBDA h : \/ Includes(ToLower(h), "asins proportion")
                                      \/ /\ Includes(ToLower(h), "asin")
                                         /\ Includes(ToLower(h), "proportion")), LAMBDA propIdx :
        IF fulfillIdx = 0 \/ propIdx = 0
        THEN Result(400, "Fulfillment or ASINs Proportion column not found in Fulfillment sheet",
                    <<>>)
        ELSE Bind(FulfillmentDocs(dataset, DataRowsOf(rows), fulfillIdx, propIdx), LAMBDA docs :
                IF docs = <<>> THEN Result(400, "No valid rows found in Fulfillment sheet", <<>>)
                ELSE Result(200, "", docs))))

\* /\bword\b/.test(l)
HasWord(l, word) ==
    \E i \in 1..(Len(l) - Len(word) + 1) :
        /\ SubSeq(l, i, i + Len(word) - 1) = word
        /\ (i = 1 \/ ~IsWordChar(CharAt(l, i - 1)))
        /\ (i + Len(word) > Len(l) \/ ~IsWordChar(CharAt(l, i + Len(word))))

\* /\bmonth\b|\bmonths\b/.test(label) && !label.includes('year')
IsNewBucket(rawBucket) ==
    LET label == ToLower(Trim(StringOf(rawBucket)))
    IN  (HasWord(label, "month") \/ HasWord(label, "months")) /\ ~Includes(label, "year")

PublicationTimeRow(row, timeIdx, salesPropIdx) ==
    Bind(CellAt(row, timeIdx), LAMBDA rawBucket :
    Bind(PublicationTimePct(CellAt(row, salesPropIdx)), LAMBDA pct :
        IF IsNullish(rawBucket) \/ IsNull(pct) THEN <<>>
        ELSE << [pct |-> pct.n, isNew |-> IsNewBucket(rawBucket)] >>))

\* [pct, isNew] of the rows that count, in row order
PublicationTimeRows(data, timeIdx, salesPropIdx) ==
    Flatten([r \in 1..Len(data) |-> PublicationTimeRow(data[r], timeIdx, salesPropIdx)])

\* totalPct and newPct of the detail rows
PublicationTimeTotals(detailRows) ==
    [totalPct |-> SumSeq([i \in 1..Len(detailRows) |-> detailRows[i].pct]),
     newPct |-> SumSeq([i \in 1..Len(detailRows) |->
                           IF detailRows[i].isNew THEN detailRows[i].pct ELSE 0])]

\* handlePublicationTimeSheet up to its first write
PublicationTimeParse(dataset, rows, header) ==
    Bind(FindIndex(header, LAMBDA h : Includes(ToLower(h), "publication time")), LAMBDA timeIdx :
    Bind(FindIndex(header, LAMBDA h : Includes(ToLower(h), "sales proportion")), LAMBDA salesPropIdx :
        IF timeIdx = 0 \/ salesPropIdx = 0
        THEN Result(400, "Publication Time or Sales Proportion column not found", <<>>)
        ELSE Bind(PublicationTimeTotals(PublicationTimeRows(DataRowsOf(rows), timeIdx, salesPropIdx)),
                  LAMBDA t :
                IF t.totalPct = 0 THEN Result(400, "No valid Sales Proportion values found", <<>>)
                ELSE Result(200, "", << Doc(dataset, "new_product_ratio", "overall", t.newPct,
                                            "pct", "Publication Time") >>))))

\* s.replace(/_+/g, '_')
RECURSIVE CollapseUnderscores(_)
CollapseUnderscores(s) ==
    IF Len(s) <= 1 THEN s
    ELSE IF CharAt(s, 1) = "_" /\ CharAt(s, 2) = "_" THEN CollapseUnderscores(Tail(s))
    ELSE CharAt(s, 1) \o CollapseUnderscores(Tail(s))

\* s.replace(/^_|_$/g, '')
StripEdgeUnderscores(s) ==
    LET a == IF s # "" /\ CharAt(s, 1) = "_" THEN Tail(s) ELSE s
    IN  IF a # "" /\ CharAt(a, Len(a)) = "_" THEN SubSeq(a, 1, Len(a) - 1) ELSE a

\* origin.toLowerCase().replace(/[^a-z]/g, '_')
NonLettersToUnderscore(s) ==
    [i \in 1..Len(s) |-> IF IsLowerLetter(CharAt(s, i)) THEN CharAt(s, i) ELSE "_"]

RECURSIVE JoinChars(_)
JoinChars(cs) == IF cs = <<>> THEN "" ELSE Head(cs) \o JoinChars(Tail(cs))

OriginCode(rawOrigin) ==
    StripEdgeUnderscores(CollapseUnderscores(
        JoinChars(NonLettersToUnderscore(ToLower(Trim(StringOf(rawOrigin)))))))

OriginOfSellerRowDocs(dataset, row, originIdx, salesPropIdx) ==
    Bind(CellAt(row, originIdx), LAMBDA rawOrigin :
    Bind(OriginOfSellerPct(CellAt(row, salesPropIdx)), LAMBDA pct :
        IF IsNullish(rawOrigin) \/ IsNull(pct) THEN <<>>
        ELSE << Doc(dataset, "seller_origin_" \o OriginCode(rawOrigin), "overall", pct.n, "pct",
                    "Origin of Seller") >>))

\* The records of the data rows, in row order
OriginOfSellerDocs(dataset, data, originIdx, salesPropIdx) ==
    Flatten([r \in 1..Len(data) |->
                OriginOfSellerRowDocs(dataset, data[r], originIdx, salesPropIdx)])

\* handleOriginOfSellerSheet up to its first write
OriginOfSellerParse(dataset, rows, header) ==
    Bind(FindIndex(header, LAMBDA h : Includes(ToLower(h), "origin of seller")), LAMBDA originIdx :
    Bind(FindIndex(header, LAMBDA h : Includes(ToLower(h), "sales proportion")), LAMBDA salesPropIdx :
        IF originIdx = 0 \/ salesPropIdx = 0
        THEN Result(400, "Origin of Seller or Sales Proportion column not found", <<>>)
        ELSE Bind(OriginOfSellerDocs(dataset, DataRowsOf(rows), originIdx, salesPropIdx),
                  LAMBDA docs :
                IF docs = <<>> THEN Result(400, "No valid rows in Origin of Seller sheet", <<>>)
                ELSE Result(200, "", docs))))

\* Number(String(rawRank).replace(/[^0-9.-]/g, ''))
RankNum(rawRank) == NumberOfString(KeepChars(StringOf(rawRank), NumberChars))

\* What one data row adds to top10
ListingConcentrationRow(row, rankIdx, salesPropIdx) ==
    Bind(CellAt(row, rankIdx), LAMBDA rawRank :
    Bind(ListingConcentrationPct(CellAt(row, salesPropIdx)), LAMBDA pct :
    Bind(RankNum(rawRank), LAMBDA rankNum :
        IF IsNullish(rawRank) \/ IsNull(pct) \/ ~IsNum(rankNum) THEN 0
        ELSE IF rankNum.n >= 1 * Scale /\ rankNum.n <= 10 * Scale THEN pct.n
        ELSE 0)))

ListingConcentrationTop10(data, rankIdx, salesPropIdx) ==
    SumSeq([r \in 1..Len(data) |-> ListingConcentrationRow(data[r], rankIdx, salesPropIdx)])

\* handleListingConcentrationSheet up to its first write: one record even
\* when no row counts
ListingConcentrationParse(dataset, rows, header) ==
    Bind(FindIndex(header, LAMBDA h : ToLower(h) = "ranking" \/ Includes(ToLower(h), "rank")),
         LAMBDA rankIdx :
    Bind(FindIndex(header, LAMBDA h : Includes(ToLower(h), "sales proportion")), LAMBDA salesPropIdx :
        IF rankIdx = 0 \/ salesPropIdx = 0
        THEN Result(400, "Ranking or Sales Proportion column not found", <<>>)
        ELSE Result(200, "", << Doc(dataset, "listing_concentration", "top10",
                                    ListingConcentrationTop10(DataRowsOf(rows), rankIdx, salesPropIdx),
                                    "pct", "Listing Concentration") >>)))

\* ------------------------------------------------------------------------
\* Ads Metrics sheet (handleAdsMetricsSheet)
\* ------------------------------------------------------------------------

AllDigits(s) == \A i \in 1..Len(s) : IsDigit(CharAt(s, i))

\* name.match(/(\d{4})(\d{2})(?!\d)/), then /(\d{4})[-_](\d{2})(?!\d)/:
\* the month YYYY-MM read from a file name, "" when there is none
DetectMonth(name) ==
    Bind({i \in 1..(Len(name) - 5) :
            /\ AllDigits(SubSeq(name, i, i + 5))
            /\ (i + 6 > Len(name) \/ ~IsDigit(CharAt(name, i + 6)))}, LAMBDA compact :
    Bind({i \in 1..(Len(name) - 6) :
            /\ AllDigits(SubSeq(name, i, i + 3))
            /\ CharAt(name, i + 4) \in {"-", "_"}
            /\ AllDigits(SubSeq(name, i + 5, i + 6))
            /\ (i + 7 > Len(name) \/ ~IsDigit(CharAt(name, i + 7)))}, LAMBDA dashed :
        IF compact # {}
        THEN Bind(CHOOSE i \in compact : \A j \in compact : i <= j, LAMBDA at :
                  SubSeq(name, at, at + 3) \o "-" \o SubSeq(name, at + 4, at + 5))
        ELSE IF dashed # {}
        THEN Bind(CHOOSE i \in dashed : \A j \in dashed : i <= j, LAMBDA at :
                  SubSeq(name, at, at + 3) \o "-" \o SubSeq(name, at + 5, at + 6))
        ELSE ""))

\* dataset.timeRange?.from, else the month of the file name, else ""
BucketGuess(dataset) ==
    IF dataset.timeRangeFrom # "" THEN dataset.timeRangeFrom
    ELSE DetectMonth(dataset.originalFilename)

AdsBucket(dataset) ==
    Bind(BucketGuess(dataset), LAMBDA bucketGuess :
        IF bucketGuess # "" THEN bucketGuess ELSE "overall")

\* One character of normalize(): anything outside [a-z0-9%] becomes a space
AdsNormalizeChar(c) ==
    IF IsLowerLetter(LowerChar(c)) \/ IsDigit(c) \/ c = "%" THEN LowerChar(c) ELSE " "

RECURSIVE AdsMapNormalize(_)
AdsMapNormalize(s) ==
    IF s = "" THEN "" ELSE AdsNormalizeChar(CharAt(s, 1)) \o AdsMapNormalize(Tail(s))

\* normalize(s) of the Ads column finder
AdsNormalize(s) == Trim(CollapseSpaces(AdsMapNormalize(s)))

\* findColumnIndex(patterns) on the detected header (from 1, 0 when not found)
FindColumnIndex(hdr, patterns) ==
    FindIndex(hdr, LAMBDA h : \E p \in patterns : Includes(AdsNormalize(h), AdsNormalize(p)))

AdsColumns(hdr) ==
    [ctr |-> FindColumnIndex(hdr, {"ctr"}),
     cpc |-> FindColumnIndex(hdr, {"cpc"}),
     roas |-> FindColumnIndex(hdr, {"roas"}),
     cr |-> FindColumnIndex(hdr, {"cr_click", "cr_search", "cr"}),
     acos |-> FindColumnIndex(hdr, {"acos"}),
     tacos |-> FindColumnIndex(hdr, {"tacos"}),
     cpp |-> FindColumnIndex(hdr, {"cpp"}),
     clicks |-> FindColumnIndex(hdr, {"clicks", "total clicks", "sum clicks", "click count",
                                      "no clicks", "click"}),
     impressions |-> FindColumnIndex(hdr, {"impressions", "impr", "impression", "imprs",
                                           "total impressions"}),
     monthlySales |-> FindColumnIndex(hdr, {"monthly sales", "sales", "orders", "order",
                                            "purchase", "purchases", "sales units"}),
     monthlySearches |-> FindColumnIndex(hdr, {"monthly searches", "searches",
                                               "keyword searches", "search volume", "volume",
                                               "sv"}),
     bid |-> FindColumnIndex(hdr, {"ppc bid", "bid", "cpc bid", "avg cpc bid", "bid ($)",
                                   "suggested bid"}),
     clickShare |-> FindColumnIndex(hdr, {"click share %", "click share", "clickshare",
                                          "clicks share", "click share pct",
                                          "click share percent"}),
     avgPrice |-> FindColumnIndex(hdr, {"avg price", "avg. price", "average price",
                                        "price avg", "avg price ($)", "avg price usd",
                                        "average price ($)"})]

\* a / b on numbers held in hundredths
Div(a, b) == (a * Scale) \div b

\* read(idx, perc) || 0
ReadOrZero(row, idx, perc) ==
    IF idx = 0 THEN 0 ELSE NumOrZero(AdsRead(CellAt(row, idx), perc))

\* What one processed row adds to each sum of the category-aggregate path
AdsRowTerms(row, cols) ==
    Bind(ReadOrZero(row, cols.clicks, FALSE), LAMBDA clicks :
    Bind(IF cols.avgPrice = 0 THEN Null ELSE AdsRead(CellAt(row, cols.avgPrice), FALSE),
         LAMBDA price :
        [clicks |-> clicks,
         impr |-> ReadOrZero(row, cols.impressions, FALSE),
         sales |-> ReadOrZero(row, cols.monthlySales, FALSE),
         searches |-> ReadOrZero(row, cols.monthlySearches, FALSE),
         prodBidClicks |-> Mul(ReadOrZero(row, cols.bid, FALSE), clicks),
         clickShareWeighted |-> Mul(ReadOrZero(row, cols.clickShare, TRUE), clicks),
         avgPrice |-> IF IsNull(price) THEN 0 ELSE price.n,
         cntAvgPrice |-> IF IsNull(price) THEN 0 ELSE 1]))

AdsSumTerms(terms) ==
    [sumClicks |-> SumSeq([r \in 1..Len(terms) |-> terms[r].clicks]),
     sumImpr |-> SumSeq([r \in 1..Len(terms) |-> terms[r].impr]),
     sumSales |-> SumSeq([r \in 1..Len(terms) |-> terms[r].sales]),
     sumSearches |-> SumSeq([r \in 1..Len(terms) |-> terms[r].searches]),
     sumProdBidClicks |-> SumSeq([r \in 1..Len(terms) |-> terms[r].prodBidClicks]),
     sumClickShareWeighted |-> SumSeq([r \in 1..Len(terms) |-> terms[r].clickShareWeighted]),
     sumAvgPrice |-> SumSeq([r \in 1..Len(terms) |-> terms[r].avgPrice]),
     cntAvgPrice |-> SumSeq([r \in 1..Len(terms) |-> terms[r].cntAvgPrice])]

\* The sums of the category-aggregate path over the processed rows
AdsSums(rowsToProcess, cols) ==
    AdsSumTerms([r \in 1..Len(rowsToProcess) |-> AdsRowTerms(rowsToProcess[r], cols)])

\* new RegExp(`^US-.*${ym}`, 'i').test(originalFilename)
IsUsMarketFile(originalFilename, ym) ==
    /\ Len(originalFilename) >= 3
    /\ ToLower(SubSeq(originalFilename, 1, 3)) = "us-"
    /\ Includes(ToLower(SubSeq(originalFilename, 4, Len(originalFilename))), ToLower(ym))

\* /market\s*analysis/i.test(sourceSheet)
IsMarketAnalysisSheet(sourceSheet) ==
    \E i \in 1..(Len(sourceSheet) - 5) :
        /\ ToLower(SubSeq(sourceSheet, i, i + 5)) = "market"
        /\ LET rest == ToLower(TrimLeft(SubSeq(sourceSheet, i + 6, Len(sourceSheet))))
           IN  Len(rest) >= 8 /\ SubSeq(rest, 1, 8) = "analysis"

\* findOne(...).sort({createdAt: -1}): the last stored of the documents of
\* series that satisfy P, Null when there is none
LatestWhere(series, P(_)) ==
    LET hits == {i \in 1..Len(series) : P(series[i])}
    IN  IF hits = {} THEN Null ELSE series[CHOOSE i \in hits : \A j \in hits : j <= i]

\* bucketGuess.replace('-', '')
WithoutFirstDash(s) ==
    LET i == IndexIn(s, "-")
    IN  IF i = 0 THEN s ELSE SubSeq(s, 1, i - 1) \o SubSeq(s, i + 1, Len(s))

\* The latest Market Analysis avg_price of the datasets ids in a bucket
AdsPriceOf(series, ids, bucket) ==
    LatestWhere(series, LAMBDA doc : /\ doc.datasetId \in ids
                                     /\ doc.metric = "avg_price"
                                     /\ doc.bucket = bucket
                                     /\ IsMarketAnalysisSheet(doc.sourceSheet))

\* The month bucket first, the overall bucket when it has none
AdsMonthlyThenOverall(series, ids, bucketGuess) ==
    Bind(AdsPriceOf(series, ids, bucketGuess), LAMBDA monthly :
        IF monthly # Null THEN monthly ELSE AdsPriceOf(series, ids, "overall"))

\* s after the two look-ups in the US-Market datasets of the category
AdsMarketPrice(series, usMarket, bucketGuess) ==
    IF bucketGuess = "" \/ usMarket = <<>> THEN Null
    ELSE Bind(AdsMonthlyThenOverall(series, {usMarket[Len(usMarket)].id}, bucketGuess),
              LAMBDA related :
                IF related # Null THEN related
                ELSE AdsMonthlyThenOverall(series, {usMarket[i].id : i \in 1..Len(usMarket)},
                                           bucketGuess))

\* s after the look-ups in the dataset's own records: the month bucket
\* look-up overwrites s whenever a month is known
AdsOwnPrice(series, dataset, bucketGuess, marketPrice) ==
    Bind(IF bucketGuess # ""
         THEN LatestWhere(series, LAMBDA doc : /\ doc.datasetId = dataset.id
                                               /\ doc.metric = "avg_price"
                                               /\ doc.bucket = bucketGuess)
         ELSE marketPrice,
         LAMBDA own :
            IF own # Null THEN own
            ELSE LatestWhere(series, LAMBDA doc : /\ doc.datasetId = dataset.id
                                                  /\ doc.metric = "avg_price"))

\* The avg_price the aggregate path falls back to when the sheet has none
\* (lines 3607-3730); datasets is the dataset collection in creation order
AdsAvgPriceFallback(dataset, series, datasets) ==
    Bind(BucketGuess(dataset), LAMBDA bucketGuess :
    Bind(SelectSeq(datasets,
                   LAMBDA d : /\ d.categoryId = dataset.categoryId
                              /\ IsUsMarketFile(d.originalFilename,
                                                WithoutFirstDash(bucketGuess))),
         LAMBDA usMarket :
    Bind(AdsOwnPrice(series, dataset, bucketGuess,
                     AdsMarketPrice(series, usMarket, bucketGuess)),
         LAMBDA s : IF s # Null THEN Num(s.value) ELSE Null)))

AdsDoc(bucket, dataset, metric, value, unit) ==
    Doc(dataset, metric, bucket, value, unit, "Ads Metrics")

\* push(metric, value, unit)
AdsPush(bucket, dataset, metric, value, unit) ==
    IF IsNum(value) THEN <<AdsDoc(bucket, dataset, metric, value.n, unit)>> ELSE <<>>

\* roas, acos, tacos and cpp from the metrics they derive from
AdsDerivedMetrics(ctrCat, crCat, cpcCat, avgPriceCat, clickShareCat) ==
    Bind(IF Truthy(cpcCat) /\ ~IsNull(crCat) /\ ~IsNull(avgPriceCat)
         THEN Num(Div(Mul(crCat.n, avgPriceCat.n), cpcCat.n))
         ELSE Null, LAMBDA roasCat :
    Bind(IF Truthy(roasCat) THEN Num(Div(Scale, roasCat.n)) ELSE Null, LAMBDA acosCat :
        [ctr |-> ctrCat, cr |-> crCat, cpc |-> cpcCat, avgPrice |-> avgPriceCat,
         roas |-> roasCat, acos |-> acosCat, clickshare |-> clickShareCat,
         tacos |-> IF ~IsNull(acosCat) /\ ~IsNull(clickShareCat)
                   THEN Num(Mul(acosCat.n, clickShareCat.n))
                   ELSE Null,
         cpp |-> IF IsNum(crCat) /\ crCat.n > 0 /\ ~IsNull(cpcCat)
                 THEN Num(Div(cpcCat.n, crCat.n))
                 ELSE Null]))

\* The category-level metrics of the aggregate path, Null for one that
\* cannot be computed
AdsCategoryMetrics(sums, avgPriceFallback) ==
    AdsDerivedMetrics(
        IF sums.sumImpr > 0 THEN Num(Div(sums.sumClicks, sums.sumImpr)) ELSE Null,
        IF sums.sumSearches > 0 THEN Num(Div(sums.sumSales, sums.sumSearches)) ELSE Null,
        IF sums.sumClicks > 0 THEN Num(Div(sums.sumProdBidClicks, sums.sumClicks)) ELSE Null,
        IF sums.cntAvgPrice > 0 THEN Num(sums.sumAvgPrice \div sums.cntAvgPrice)
        ELSE avgPriceFallback,
        IF sums.sumClicks > 0 THEN Num(Div(sums.sumClickShareWeighted, sums.sumClicks))
        ELSE Null)

AdsAggregateDocs(bucket, dataset, m) ==
    AdsPush(bucket, dataset, "ctr", m.ctr, "pct") \o AdsPush(bucket, dataset, "cr", m.cr, "pct")
    \o AdsPush(bucket, dataset, "cpc", m.cpc, "usd")
    \o AdsPush(bucket, dataset, "roas", m.roas, "ratio")
    \o AdsPush(bucket, dataset, "acos", m.acos, "pct")
    \o AdsPush(bucket, dataset, "clickshare", m.clickshare, "pct")
    \o AdsPush(bucket, dataset, "tacos", m.tacos, "pct")
    \o AdsPush(bucket, dataset, "cpp", m.cpp, "usd")

\* One metric column of one row of the direct-column path
AdsDirectCell(bucket, dataset, row, idx, metric, isPercentage, unit) ==
    IF idx = 0 THEN <<>>
    ELSE AdsPush(bucket, dataset, metric, AdsParseValue(CellAt(row, idx), isPercentage), unit)

\* The documents of one row of the direct-column path
AdsDirectRowDocs(bucket, dataset, row, cols) ==
    IF \A j \in 1..Len(row) : IsBlank(row[j]) THEN <<>>
    ELSE AdsDirectCell(bucket, dataset, row, cols.ctr, "ctr", TRUE, "pct")
         \o AdsDirectCell(bucket, dataset, row, cols.cpc, "cpc", FALSE, "usd")
         \o AdsDirectCell(bucket, dataset, row, cols.roas, "roas", FALSE, "ratio")
         \o AdsDirectCell(bucket, dataset, row, cols.cr, "cr", TRUE, "pct")
         \o AdsDirectCell(bucket, dataset, row, cols.acos, "acos", TRUE, "pct")
         \o AdsDirectCell(bucket, dataset, row, cols.tacos, "tacos", TRUE, "pct")
         \o AdsDirectCell(bucket, dataset, row, cols.cpp, "cpp", FALSE, "usd")

\* The columns of the header row the handler detects
AdsColumnsOf(rows) == AdsColumns(HeaderOf(rows, HeaderRowIdx(rows, EXPECTED_COL_KEYS)))

\* The handler takes the direct-column path when no clicks column resolves
AdsIsDirect(rows) == AdsColumnsOf(rows).clicks = 0

\* The category-aggregate path up to its first write
AdsAggregateParse(bucket, dataset, sums, series, datasets) ==
    Bind(AdsAggregateDocs(bucket, dataset,
            AdsCategoryMetrics(sums, IF sums.cntAvgPrice > 0 THEN Null
                                     ELSE AdsAvgPriceFallback(dataset, series, datasets))),
         LAMBDA docs :
            IF docs = <<>> THEN Result(400, "No metric could be computed from Ads sheet", <<>>)
            ELSE Result(200, "", docs))

\* The direct-column path up to its first write
AdsDirectParse(bucket, dataset, rowsToProcess, cols) ==
    Bind(Flatten([k \in 1..Len(rowsToProcess) |->
                    AdsDirectRowDocs(bucket, dataset, rowsToProcess[k], cols)]),
         LAMBDA docs :
            IF docs = <<>> THEN Result(400, "No valid ads metrics data found in sheet", <<>>)
            ELSE Result(200, "", docs))

AdsRowsOf(rows, indexes) == [k \in 1..Len(indexes) |-> RowAt(rows, indexes[k])]

\* handleAdsMetricsSheet up to its first write; series and datasets are the
\* collections its fallback reads
AdsParse(dataset, rows, series, datasets) ==
    Bind(HeaderRowIdx(rows, EXPECTED_COL_KEYS), LAMBDA headerRowIdx :
    Bind(AdsColumns(HeaderOf(rows, headerRowIdx)), LAMBDA cols :
    Bind(AdsRowsOf(rows, AdsRowsToProcess(rows, headerRowIdx)), LAMBDA rowsToProcess :
        IF cols.clicks # 0
        THEN AdsAggregateParse(AdsBucket(dataset), dataset, AdsSums(rowsToProcess, cols),
                               series, datasets)
        ELSE AdsDirectParse(AdsBucket(dataset), dataset, rowsToProcess, cols))))

AdsMetricNames == {"ctr", "cpc", "roas", "cr", "acos", "tacos", "cpp"}

\* updateFields of the direct path: the value of the first document of each
\* metric (the documents carry no createdAt), Undef for a metric without one
AdsDefaults(docs, defaults) ==
    [m \in AdsMetricNames |->
        IF DocsOfMetric(docs, m) # <<>> THEN Num(DocsOfMetric(docs, m)[1].value)
        ELSE defaults[m]]

\* ------------------------------------------------------------------------
\* Column-mapped ingestion (POST /research/ingest, generic path)
\* ------------------------------------------------------------------------

Mapping(metric, column, unit) == [metric |-> metric, column |-> column, unit |-> unit]

\* bucketFormat normalisation: YYYYMM and MM/YYYY to YYYY-MM
NormalizeBucket(bucket, bucketFormat) ==
    IF bucketFormat = "YYYYMM" /\ Len(bucket) = 6 /\ AllDigits(bucket)
    THEN SubSeq(bucket, 1, 4) \o "-" \o SubSeq(bucket, 5, 6)
    ELSE IF /\ bucketFormat = "MM/YYYY" /\ Len(bucket) \in {6, 7}
            /\ CharAt(bucket, Len(bucket) - 4) = "/"
            /\ AllDigits(SubSeq(bucket, 1, Len(bucket) - 5))
            /\ AllDigits(SubSeq(bucket, Len(bucket) - 3, Len(bucket)))
    THEN SubSeq(bucket, Len(bucket) - 3, Len(bucket)) \o "-"
         \o (IF Len(bucket) = 6 THEN "0" ELSE "") \o SubSeq(bucket, 1, Len(bucket) - 5)
    ELSE bucket

MappedFormatChars == {"$", ",", "%", " "}

\* The value of a mapped cell, Null when the cell is skipped
MappedValue(valRaw) ==
    IF IsBlank(valRaw) THEN Null
    ELSE Bind(IF IsStr(valRaw) THEN NumberOfString(RemoveChars(valRaw.s, MappedFormatChars))
              ELSE valRaw,
              LAMBDA v : IF IsNum(v) THEN v ELSE Null)

\* idx of a mapping: the column whose header equals its column name
MappedIdxOf(header, m) == FindIndex(header, LAMBDA h : ToLower(h) = ToLower(m.column))

\* The record of one mapped cell
MappedCellDocs(dataset, sheetName, row, idx, m, bucket) ==
    Bind(MappedValue(CellAt(row, idx)), LAMBDA v :
        IF IsNull(v) THEN <<>>
        ELSE << Doc(dataset, m.metric, bucket, v.n, m.unit, sheetName) >>)

\* The records of one data row; mm holds the mappings with their columns
MappedRowDocs(dataset, sheetName, row, bIdx, bucketFormat, mm) ==
    Bind(CellAt(row, bIdx), LAMBDA rawBucket :
        IF IsBlank(rawBucket) /\ dataset.timeRangeFrom = "" THEN <<>>
        ELSE Bind(IF IsBlank(rawBucket) THEN dataset.timeRangeFrom
                  ELSE NormalizeBucket(Trim(StringOf(rawBucket)), bucketFormat),
                  LAMBDA bucket :
                    Flatten([k \in 1..Len(mm) |->
                        MappedCellDocs(dataset, sheetName, row, mm[k].idx, mm[k].m, bucket)])))

\* The mappings whose column the header has, with the column's index
MappedColumns(header, metricMappings) ==
    SelectSeq([k \in 1..Len(metricMappings) |->
                  [m |-> metricMappings[k], idx |-> MappedIdxOf(header, metricMappings[k])]],
              LAMBDA c : c.idx # 0)

\* The generic path of the ingest route up to its first write
MappedParse(dataset, sheetName, rows, header, bucketColumn, bucketFormat, metricMappings) ==
    IF bucketColumn = "" THEN
        Result(400, "bucketColumn and metricMappings required for ingestion", <<>>)
    ELSE
    Bind(FindIndex(header, LAMBDA h : ToLower(h) = ToLower(bucketColumn)), LAMBDA bIdx :
    Bind(MappedColumns(header, metricMappings), LAMBDA mm :
        IF bIdx = 0 THEN Result(400, "Bucket column not found", <<>>)
        ELSE IF mm = <<>> THEN Result(400, "No mapped columns found", <<>>)
        ELSE Bind(Flatten([r \in 1..(Len(rows) - 1) |->
                      MappedRowDocs(dataset, sheetName, rows[r + 1], bIdx, bucketFormat, mm)]),
                  LAMBDA docs :
                    IF docs = <<>> THEN Result(400, "No data rows ingested", <<>>)
                    ELSE Result(200, "", docs))))

\* ------------------------------------------------------------------------
\* Workbooks and sheet lookup (readSheetAsArray, autoIngestStandardSheets,
\* POST /research/ingest)
\* ------------------------------------------------------------------------

Sheet(name, rows) == [name |-> name, rows |-> rows]
Workbook(originalFilename, sheets) == [originalFilename |-> originalFilename, sheets |-> sheets]

\* notEmpty(arr): some cell is neither null nor ''
NotEmptyRow(arr) == \E j \in 1..Len(arr) : ~IsBlank(arr[j])

RECURSIVE DropLeadingEmptyRows(_)
DropLeadingEmptyRows(rows) ==
    IF rows # <<>> /\ ~NotEmptyRow(Head(rows)) THEN DropLeadingEmptyRows(Tail(rows)) ELSE rows

\* The position in the workbook of the sheet readSheetAsArray reads, 0 when
\* there is none
SheetIndex(workbook, sheetName) ==
    Bind(FindIndex(workbook.sheets, LAMBDA sh : sh.name = sheetName), LAMBDA exact :
        IF exact # 0 THEN exact
        ELSE FindIndex(workbook.sheets,
                       LAMBDA sh : Includes(ToLower(sh.name), ToLower(sheetName))))

\* readSheetAsArray(workbook, sheetName): the sheet of that name, else the
\* first whose lower-cased name equals or includes it; [] when there is none
ReadSheetAsArray(workbook, sheetName) ==
    Bind(SheetIndex(workbook, sheetName), LAMBDA at :
        IF at # 0 THEN DropLeadingEmptyRows(workbook.sheets[at].rows) ELSE <<>>)

\* rows[0].map((h) => String(h || '').trim())
FirstRowHeader(rows) == HeaderOf(rows, 0)

STANDARD_SHEETS ==
    << "Market Analysis", "Listing Concentration", "Fulfillment", "Origin of Seller",
       "Publication Time" >>

IsMarketResearchName(n) == Includes(ToLower(n), "market-research")
IsAdsName(n) ==
    \/ Includes(ToLower(n), "batch") \/ Includes(ToLower(n), "ads")
    \/ Includes(ToLower(n), "christmas")

\* A sheet handed to a handler: the handler, the sheet name looked up and the
\* header row the caller passes
Job(handler, sheetName) == [handler |-> handler, sheetName |-> sheetName]

\* The job of the first sheet whose name satisfies IsNamed, when it has rows
NamedJob(workbook, handler, IsNamed(_)) ==
    Bind(FindIndex(workbook.sheets, LAMBDA sh : IsNamed(sh.name)), LAMBDA i :
        IF i # 0 /\ ReadSheetAsArray(workbook, workbook.sheets[i].name) # <<>>
        THEN <<Job(handler, workbook.sheets[i].name)>>
        ELSE <<>>)

\* The sheets autoIngestStandardSheets hands to a handler, in its order:
\* the standard sheets that have rows, then the first Market-research sheet,
\* then the first Ads sheet
AutoJobs(workbook) ==
    SelectSeq([i \in 1..Len(STANDARD_SHEETS) |-> Job(STANDARD_SHEETS[i], STANDARD_SHEETS[i])],
              LAMBDA j : ReadSheetAsArray(workbook, j.sheetName) # <<>>)
    \o NamedJob(workbook, "Market-research", IsMarketResearchName)
    \o NamedJob(workbook, "Ads Metrics", IsAdsName)

\* The handler the ingest route dispatches a sheet name to
IngestHandler(sheetName) ==
    IF sheetName \in {"Market Analysis", "Fulfillment", "Publication Time", "Origin of Seller",
                      "Listing Concentration"}
    THEN sheetName
    ELSE IF IsMarketResearchName(sheetName) THEN "Market-research"
    ELSE IF IsAdsName(sheetName) THEN "Ads Metrics"
    ELSE "Mapped"

\* rows[0].join(' ')
RECURSIVE JoinCells(_)
JoinCells(row) ==
    IF row = <<>> THEN ""
    ELSE (IF IsNullish(Head(row)) THEN "" ELSE StringOf(Head(row)))
         \o (IF Len(row) > 1 THEN " " ELSE "") \o JoinCells(Tail(row))

\* /batch\(\d+\)/i
HasBatchNumber(s) ==
    \E i \in 1..(Len(s) - 7) : \E n \in 1..(Len(s) - i - 6) :
        /\ ToLower(SubSeq(s, i, i + 5)) = "batch("
        /\ AllDigits(SubSeq(s, i + 6, i + 5 + n))
        /\ CharAt(s, i + 6 + n) = ")"

\* /\d{4}-?\d{2}-?\d{5,}/
HasLongStamp(s) ==
    \E i \in 1..Len(s) : \E d1 \in {0, 1} : \E d2 \in {0, 1} :
        /\ i + 10 + d1 + d2 <= Len(s)
        /\ AllDigits(SubSeq(s, i, i + 3))
        /\ (d1 = 1 => CharAt(s, i + 4) = "-")
        /\ AllDigits(SubSeq(s, i + 4 + d1, i + 5 + d1))
        /\ (d2 = 1 => CharAt(s, i + 6 + d1) = "-")
        /\ AllDigits(SubSeq(s, i + 6 + d1 + d2, i + 10 + d1 + d2))

\* /^(\$|\d|\.|,|%)/.test(c)
StartsNumeric(c) == c # "" /\ (IsDigit(CharAt(c, 1)) \/ CharAt(c, 1) \in {"$", ".", ",", "%"})

\* A candidate header row: four filled cells that are not all numeric
IsHeaderCandidate(filled) ==
    Len(filled) >= 4 /\ Len(SelectSeq(filled, StartsNumeric)) < Len(filled)

\* /keywordsanalyze|batch\(\d+\)/i.test(rows[0].join(' '))
LooksLikeTitle(joinedRow) ==
    Includes(ToLower(joinedRow), "keywordsanalyze") \/ HasBatchNumber(joinedRow)

\* The first of the rows 1..9 (0-based) that is a header candidate, else first
FirstCandidateHeader(rows, first) ==
    Bind({i \in 1..(Min2(HeaderScanLimit, Len(rows)) - 1) :
            IsHeaderCandidate(SelectSeq(HeaderOf(rows, i), LAMBDA c : Trim(c) # ""))},
         LAMBDA hits :
            IF hits # {} THEN HeaderOf(rows, CHOOSE i \in hits : \A j \in hits : i <= j)
            ELSE first)

\* The header the ingest route passes to a handler: the first row, or, when
\* that row looks like a title, the first of the rows 1..9 with four filled
\* cells that are not all numeric
IngestHeader(rows) ==
    Bind(FirstRowHeader(rows), LAMBDA first :
        IF \/ LooksLikeTitle(JoinCells(rows[1]))
           \/ HasLongStamp(ToLower(JoinCells([j \in 1..Len(first) |-> Str(first[j])])))
        THEN FirstCandidateHeader(rows, first)
        ELSE first)

\* ------------------------------------------------------------------------
\* The store: uploaded workbooks, datasets, categories and records
\* ------------------------------------------------------------------------

DatasetIds == {"d1", "d2"}
CategoryId == "c1"
CategoryName == "Home & Kitchen"

\* The ingest requests and the thrown database operations of one behaviour
MaxIngests == 2
MaxFaults == 1

\* The rule tables the handlers read; no modelled route writes them
ReferralRules == TwoPortionBands

GoodMarketAnalysis ==
    << MarketSheetHeader,
       << Str("2025-08"), Num(120 * Scale), Num(30 * Scale), Num(500 * Scale), Str("All"),
          Num(20 * Scale), Num(1500 * Scale), Num(450) >> >>

\* A Market Analysis sheet that has no Sample Type column
MarketAnalysisWithoutSampleType ==
    << << Str("Time"), Str("Avg. Monthly Unit Sales"), Str("Avg. Monthly Revenue($)"),
          Str("Sample Size"), Str("Avg. Price($)"), Str("Avg. Ratings"), Str("Avg. Rating") >>,
       << Str("2025-08"), Num(120 * Scale), Num(30 * Scale), Num(500 * Scale),
          Num(20 * Scale), Num(1500 * Scale), Num(450) >> >>

GoodFulfillment ==
    << <<Str("Fulfillment"), Str("ASINs Proportion")>>,
       <<Str("FBA"), Str("62.5%")>>,
       <<Str("FBM"), Num(3750)>> >>

GoodMarketResearch ==
    << WeightSheetTitle, WeightSheetHeader, WeightRow(Num(24), Num(64 * Scale)) >>

GoodListingConcentration ==
    << <<Str("Ranking"), Str("Sales Proportion")>>,
       <<Num(1 * Scale), Str("12%")>>,
       <<Num(11 * Scale), Str("3%")>> >>

HeaderOnlyOriginOfSeller == << <<Str("Origin of Seller"), Str("Sales Proportion")>> >>

GoodOriginOfSeller ==
    << <<Str("Origin of Seller"), Str("Sales Proportion")>>,
       <<Str("US"), Str("40%")>>,
       <<Str("CN (Mainland)"), Num(60)>> >>

GoodPublicationTime ==
    << <<Str("Publication Time"), Str("Sales Proportion")>>,
       <<Str("1 month"), Str("10%")>>,
       <<Str("1 year"), Str("90%")>> >>

CustomSheet ==
    << <<Str("Month"), Str("Units")>>,
       <<Str("202508"), Str("1,200")>> >>

\* An Ads sheet with raw columns: the category-aggregate path
AggregateAds ==
    << <<Str("Keyword"), Str("Clicks"), Str("Impressions"), Str("Monthly Sales"),
         Str("Monthly Searches"), Str("PPC Bid")>>,
       <<Str("pan"), Num(50 * Scale), Num(1000 * Scale), Num(20 * Scale), Num(400 * Scale),
         Num(150)>> >>

\* An Ads sheet with ratio columns: the direct-column path
DirectAds ==
    << <<Str("Keyword"), Str("CTR"), Str("CPC"), Str("ACOS")>>,
       <<Str("pan"), Str("2.5%"), Str("$1.20"), Num(30)>> >>

MarketWorkbook ==
    Workbook("US-Market-202508.xlsx",
             << Sheet("Market Analysis", GoodMarketAnalysis),
                Sheet("Fulfillment", GoodFulfillment),
                Sheet("Market-research(1)-US", GoodMarketResearch) >>)

NoSampleTypeWorkbook ==
    Workbook("market.xlsx",
             << Sheet("Market Analysis", MarketAnalysisWithoutSampleType),
                Sheet("Fulfillment", GoodFulfillment) >>)

ProfileWorkbook ==
    Workbook("profile-2025_08.xlsx",
             << Sheet("Listing Concentration", GoodListingConcentration),
                Sheet("Origin of Seller", HeaderOnlyOriginOfSeller),
                Sheet("Publication Time", GoodPublicationTime),
                Sheet("Custom", CustomSheet) >>)

BatchWorkbook == Workbook("Batch-202508.xlsx", << Sheet("Batch(1)", AggregateAds) >>)

AdsWorkbook ==
    Workbook("ads.xlsx",
             << Sheet("Ads", DirectAds), Sheet("Origin of Seller", GoodOriginOfSeller) >>)

\* Sheets with a header row and no data row
HeaderOnlyMarketAnalysis == << MarketSheetHeader >>
HeaderOnlyListingConcentration == << <<Str("Ranking"), Str("Sales Proportion")>> >>
HeaderOnlyFulfillment == << <<Str("Fulfillment"), Str("ASINs Proportion")>> >>
HeaderOnlyPublicationTime == << <<Str("Publication Time"), Str("Sales Proportion")>> >>

\* A Market-research sheet too heavy for every size tier
HeavyMarketResearch ==
    << WeightSheetHeader, WeightRow(Num(80 * Scale), Num(12 * 12 * 12 * Scale)) >>

EdgeWorkbook ==
    Workbook("edge-202508.xlsx",
             << Sheet("Market Analysis", HeaderOnlyMarketAnalysis),
                Sheet("Listing Concentration", HeaderOnlyListingConcentration),
                Sheet("Fulfillment", HeaderOnlyFulfillment),
                Sheet("Publication Time", HeaderOnlyPublicationTime),
                Sheet("Market-research(1)-US", GoodMarketResearch),
                Sheet("Market-research(2)-US", HeavyMarketResearch) >>)

Workbooks ==
    {MarketWorkbook, NoSampleTypeWorkbook, ProfileWorkbook, BatchWorkbook, AdsWorkbook,
     EdgeWorkbook}

AnalysisWorkbook ==
    Workbook("analysis.xlsx", << Sheet("Market Analysis", GoodMarketAnalysis) >>)

\* The workbooks of the behaviours with two datasets
TwoWorkbooks == {AnalysisWorkbook}

\* The body of an ingest request for the generic path
MappingRequest(bucketColumn, bucketFormat, metricMappings) ==
    [bucketColumn |-> bucketColumn, bucketFormat |-> bucketFormat,
     metricMappings |-> metricMappings]

NoRequest == MappingRequest("", "", <<>>)

MappingRequests ==
    { MappingRequest("Month", "YYYYMM", <<Mapping("units", "Units", "count")>>),
      NoRequest }

\* The request bodies sent for a sheet: a mapping for a sheet the route has
\* no handler for, none for the others
RequestsFor(sheetName) ==
    IF IngestHandler(sheetName) = "Mapped" THEN MappingRequests ELSE {NoRequest}

NoWorkbook == Workbook("", <<>>)
NoDataset ==
    [doc |-> Dataset("", "", "", ""), status |-> "", workbook |-> NoWorkbook, createdAt |-> 0]
NoCategory == Category("", Undef, Undef, Undef)
NoJob == Job("", "")

\* ------------------------------------------------------------------------
\* Handlers as processes: one step for the reads and the computation, then
\* one step for each awaited write
\* ------------------------------------------------------------------------

\* The background auto-ingestion upload starts and the ingest request in
\* flight, for each dataset
Slots == {"auto", "manual"}
ProcIds == DatasetIds \X Slots

\* What a handler handed to res for a sheet, with the documents of its final
\* insertMany and every document it inserted on the way
Outcome(job, status, error, docs, produced) ==
    [job |-> job, status |-> status, error |-> error, docs |-> docs, produced |-> produced]

NoWeighed == Weighed(0, "", Null, Null, NoChain, "", Null)

IdleProc ==
    [pc |-> "idle", job |-> NoJob, queue |-> <<>>, req |-> NoRequest, docs |-> <<>>,
     direct |-> FALSE, weighed |-> NoWeighed, produced |-> <<>>, results |-> <<>>]

NoRuns ==
    [p |-> <<"", "">>, job |-> NoJob, req |-> NoRequest, n |-> 0, once |-> <<>>, twice |-> <<>>]

\* The sourceSheet a handler deletes by and writes
SourceSheetOf(job) == IF job.handler = "Mapped" THEN job.sheetName ELSE job.handler

\* A filter that leaves the dataset out
MatchesDeleteAnyDataset(doc, datasetId, sourceSheet) == doc.sourceSheet = sourceSheet

\* The filter { datasetId, sourceSheet } of deleteMany
MatchesDelete(doc, datasetId, sourceSheet) ==
    doc.datasetId = datasetId /\ doc.sourceSheet = sourceSheet

DeleteMany(series, datasetId, sourceSheet) ==
    SelectSeq(series, LAMBDA doc : ~MatchesDelete(doc, datasetId, sourceSheet))

RecordsOf(series, datasetId) == SelectSeq(series, LAMBDA doc : doc.datasetId = datasetId)

\* The dataset documents in creation order
DatasetDocs(all) ==
    [k \in 1..Cardinality({d \in DOMAIN all : all[d] # NoDataset}) |->
        all[CHOOSE d \in DOMAIN all :
                /\ all[d] # NoDataset
                /\ Cardinality({e \in DOMAIN all : /\ all[e] # NoDataset
                                                   /\ all[e].createdAt < all[d].createdAt})
                     = k - 1].doc]

\* The ResearchDataset collection: the documents no DELETE request has removed
StoredDatasets ==
    [d \in DatasetIds |-> IF removals[d] = "done" THEN NoDataset ELSE researchDatasets[d]]

\* latestFbaFeeUsd: the latest fba_fee record of the category, else the
\* category's constant, else 0
LatestFbaFeeUsd(series, cat, categoryId) ==
    Bind(LatestWhere(series, LAMBDA doc : doc.categoryId = categoryId /\ doc.metric = "fba_fee"),
         LAMBDA fba :
            IF fba # Null /\ fba.value # 0 THEN Num(fba.value)
            ELSE IF IsNum(cat.fbaFeeUsd) THEN cat.fbaFeeUsd
            ELSE Num(0))

\* What the reads and the computation of a handler come to
Parsed(status, error, docs, direct, weighed) ==
    [status |-> status, error |-> error, docs |-> docs, direct |-> direct, weighed |-> weighed]

OfResult(res) == Parsed(res.status, res.error, res.docs, FALSE, NoWeighed)

\* The final record of the Market-research handler
MarketResearchDocs(dataset, feeUSD) ==
    << Doc(dataset, "fba_fee", "overall", feeUSD.n, "usd", "Market-research") >>

OfWeighed(dataset, w) ==
    Parsed(w.status, w.error, IF w.status = 200 THEN MarketResearchDocs(dataset, w.feeUSD) ELSE <<>>,
           FALSE, w)

OfAds(res, direct) == Parsed(res.status, res.error, res.docs, direct, NoWeighed)

\* The handler of a job on the rows and the header its caller hands over
HandlerOf(job, dataset, rows, header, req, series, datasetDocs, cat) ==
    CASE job.handler = "Market Analysis" ->
            OfResult(MarketAnalysisParse(dataset, rows, header,
                                         LatestFbaFeeUsd(series, cat, dataset.categoryId), cat,
                                         ReferralRules))
      [] job.handler = "Fulfillment" -> OfResult(FulfillmentParse(dataset, rows, header))
      [] job.handler = "Publication Time" -> OfResult(PublicationTimeParse(dataset, rows, header))
      [] job.handler = "Origin of Seller" -> OfResult(OriginOfSellerParse(dataset, rows, header))
      [] job.handler = "Listing Concentration" ->
            OfResult(ListingConcentrationParse(dataset, rows, header))
      [] job.handler = "Market-research" ->
            OfWeighed(dataset, MarketResearchWeigh(rows, AllTiers, FbaFeeRules))
      [] job.handler = "Ads Metrics" ->
            OfAds(AdsParse(dataset, rows, series, datasetDocs), AdsIsDirect(rows))
      [] OTHER ->
            OfResult(MappedParse(dataset, job.sheetName, rows, header, req.bucketColumn,
                                 req.bucketFormat, req.metricMappings))

\* The sheet read and the handler's reads and computation; the ingest route
\* answers 400 for a sheet without rows and re-detects the header, the
\* auto-ingestion takes the first row
HandlerParse(job, slot, dataset, workbook, req, series, datasetDocs, cat) ==
    Bind(ReadSheetAsArray(workbook, job.sheetName), LAMBDA rows :
        IF rows = <<>> THEN Parsed(400, "Empty sheet", <<>>, FALSE, NoWeighed)
        ELSE HandlerOf(job, dataset, rows,
                       IF slot = "auto" THEN FirstRowHeader(rows) ELSE IngestHeader(rows),
                       req, series, datasetDocs, cat))

\* An auto-ingestion that gives up at the first sheet that fails
NextJobsUntilFailure(queue, status) == IF status = 200 THEN queue ELSE <<>>

\* The sheets the auto-ingestion still hands over after a sheet ended with
\* status: every one, whatever the status
NextJobs(queue, status) == queue

AfterOutcome(slot, queue, results) ==
    IF slot = "manual" THEN [IdleProc EXCEPT !.results = <<results[Len(results)]>>]
    ELSE IF queue = <<>> THEN [IdleProc EXCEPT !.pc = "done", !.results = results]
    ELSE [IdleProc EXCEPT !.pc = "parse", !.job = Head(queue), !.queue = Tail(queue),
                          !.results = results]

\* The handler has answered: the auto-ingestion goes on with its next sheet,
\* the request is over
Finished(proc, slot, status, error) ==
    AfterOutcome(slot, NextJobs(proc.queue, status),
                 Append(proc.results,
                        Outcome(proc.job, status, error,
                                IF status = 200 THEN proc.docs ELSE <<>>, proc.produced)))

FailureText(handler) ==
    CASE handler = "Market Analysis" -> "Failed to process Market Analysis sheet"
      [] handler = "Fulfillment" -> "Failed to process Fulfillment sheet"
      [] handler = "Publication Time" -> "Failed to process Publication Time sheet"
      [] handler = "Origin of Seller" -> "Failed to process Origin of Seller sheet"
      [] handler = "Listing Concentration" -> "Failed to process Listing Concentration sheet"
      [] handler = "Market-research" -> "Failed to process Market-research sheet"
      [] handler = "Ads Metrics" -> "Failed to process ads metrics sheet"
      [] OTHER -> "Ingest failed"

\* The position after the reads and the computation
AfterParse(proc, slot, parsed) ==
    IF parsed.status # 200 THEN Finished(proc, slot, parsed.status, parsed.error)
    ELSE [proc EXCEPT !.pc = IF proc.job.handler = "Market-research" THEN "constants"
                               ELSE "delete",
                      !.docs = parsed.docs, !.direct = parsed.direct,
                      !.weighed = parsed.weighed]

\* The position after a database operation at pc has thrown: the guarded
\* blocks of the Market-research handler and the defaults update of the Ads
\* handler are left, anything else ends the handler with status 500
AfterThrow(proc, slot) ==
    CASE proc.pc = "constants" -> [proc EXCEPT !.pc = "monthlyDelete"]
      [] proc.pc \in {"monthlyDelete", "monthlyInsert"} -> [proc EXCEPT !.pc = "referral"]
      [] proc.pc = "referral" -> [proc EXCEPT !.pc = "delete"]
      [] proc.pc = "defaults" -> Finished(proc, slot, 200, "")
      [] OTHER -> Finished(proc, slot, 500, FailureText(proc.job.handler))

ThrowingPcs ==
    {"delete", "insert", "ready", "constants", "monthlyDelete", "monthlyInsert", "referral",
     "defaults"}

MonthlyMetrics == {"avg_weight_lb", "avg_volume_in3", "fba_fee"}

\* The monthly records of the Market-research handler
MonthlyDocs(dataset, w) ==
    << Doc(dataset, "avg_weight_lb", DatasetBucket(dataset), w.avgWeightLb.n, "count",
           "Market-research"),
       Doc(dataset, "avg_volume_in3", DatasetBucket(dataset), w.avgVolumeIn3.n, "count",
           "Market-research"),
       Doc(dataset, "fba_fee", DatasetBucket(dataset), w.feeUSD.n, "usd", "Market-research") >>

\* The category constants of the Market-research handler; the chain keeps
\* side in hundredths of an inch and the weights in its own units
WithConstants(cat, w) ==
    [cat EXCEPT !.fbaFeeUsd = w.feeUSD, !.sizeTierEstimate = Str(w.tier),
                !.avgWeightLb = w.avgWeightLb, !.avgVolumeIn3 = w.avgVolumeIn3,
                !.estimatedSideIn = Num(w.chain.side),
                !.estimatedDimensionalWeightLb = Num(w.chain.dimensionalWeight),
                !.estimatedShippingWeightLb = Num(w.chain.shippingWeight)]

\* (priceMax ?? Infinity) - (priceMin ?? 0)
PriceRange(r) ==
    (IF IsNullish(r.priceMax) THEN Infinity ELSE r.priceMax.n)
    - (IF IsNullish(r.priceMin) THEN 0 ELSE r.priceMin.n)

\* (r.priceMin == null || r.priceMin === 0) && (r.priceMax == null || r.priceMax === 0)
CoversEveryPrice(r) ==
    /\ (IsNullish(r.priceMin) \/ r.priceMin = Num(0))
    /\ (IsNullish(r.priceMax) \/ r.priceMax = Num(0))

\* pick: the first rule that covers every price, else the first after the
\* stable ascending sort by price range
PickRule(refRules) ==
    Bind(FindIndex(refRules, CoversEveryPrice), LAMBDA whole :
        IF whole # 0 THEN refRules[whole]
        ELSE refRules[CHOOSE i \in 1..Len(refRules) :
                        /\ \A j \in 1..Len(refRules) :
                            PriceRange(refRules[i]) <= PriceRange(refRules[j])
                        /\ \A j \in 1..(i - 1) :
                            PriceRange(refRules[j]) > PriceRange(refRules[i])])

\* Math.max(0, ...refRules.map((r) => Number(r.minFeeUSD || 0)))
RECURSIVE MaxMinFeeOrZero(_)
MaxMinFeeOrZero(refRules) ==
    IF refRules = <<>> THEN 0
    ELSE Max2(NumOrZero(Head(refRules).minFeeUSD), MaxMinFeeOrZero(Tail(refRules)))

\* pick?.feePercent ?? refRules[0].feePercent ?? null
DefaultPercent(pick, refRules) ==
    IF ~IsNullish(pick.feePercent) THEN pick.feePercent
    ELSE IF ~IsNullish(refRules[1].feePercent) THEN refRules[1].feePercent
    ELSE Null

\* The referral defaults the Market-research handler persists: the rules
\* whose category holds the category's name (the name holds no character
\* that is special in a regular expression), none when there is no such rule
WithReferralDefault(cat, rules) ==
    Bind(SelectSeq(rules, LAMBDA r : Includes(ToLower(r.category), ToLower(cat.name))),
         LAMBDA refRules :
            IF refRules = <<>> THEN cat
            ELSE [cat EXCEPT
                    !.referralFeePercentDefault = DefaultPercent(PickRule(refRules), refRules),
                    !.referralMinFeeUsd = Num(MaxMinFeeOrZero(refRules))])

\* The quiet-run record after a step of p that left p at after and the
\* records at seriesAfter: lost when another handler steps or the run fails,
\* advanced when the ingest request runs to a 200
RunsAfter(p, after, seriesAfter) ==
    IF runs.p # p THEN NoRuns
    ELSE IF after.pc # "idle" THEN runs
    ELSE IF after.results[1].status # 200 THEN NoRuns
    ELSE IF runs.n = 0 THEN [runs EXCEPT !.n = 1, !.once = RecordsOf(seriesAfter, p[1])]
    ELSE [runs EXCEPT !.n = 2, !.twice = RecordsOf(seriesAfter, p[1])]

\* The record when the request of p for job starts: a second run of the
\* request that just ran alone, else a first run
RunsAtStart(p, job, req) ==
    IF runs.p = p /\ runs.job = job /\ runs.req = req /\ runs.n = 1 THEN runs
    ELSE [NoRuns EXCEPT !.p = p, !.job = job, !.req = req]

SheetNames(workbook) == {workbook.sheets[i].name : i \in 1..Len(workbook.sheets)}

\* The auto-ingestion at its first sheet, or over when it has none
AutoStart(jobs) ==
    IF jobs = <<>> THEN [IdleProc EXCEPT !.pc = "done"]
    ELSE [IdleProc EXCEPT !.pc = "parse", !.job = Head(jobs), !.queue = Tail(jobs)]

StInit ==
    /\ researchSeries = <<>>
    /\ researchDatasets = [d \in DatasetIds |-> NoDataset]
    /\ researchCategories = [c \in {CategoryId} |-> NoCategory]
    /\ procs = [p \in ProcIds |-> IdleProc]
    /\ faults = 0
    /\ ingests = 0
    /\ runs = NoRuns
    /\ removals = [d \in DatasetIds |-> "none"]

StIdle == StInit

\* POST /research/upload of a workbook from books: the category is found by
\* its slug or created, the dataset is created with the month of the file
\* name, and the auto-ingestion is scheduled
Upload(d, books) ==
    /\ researchDatasets[d] = NoDataset
    /\ \E workbook \in books :
        /\ researchDatasets' =
             [researchDatasets EXCEPT ![d] =
                [doc |-> Dataset(d, CategoryId, DetectMonth(workbook.originalFilename),
                                 workbook.originalFilename),
                 status |-> "parsed", workbook |-> workbook,
                 createdAt |-> Len(DatasetDocs(researchDatasets)) + 1]]
        /\ procs' = [procs EXCEPT ![<<d, "auto">>] = AutoStart(AutoJobs(workbook))]
    /\ researchCategories' =
         [researchCategories EXCEPT ![CategoryId] =
            IF @ = NoCategory THEN Category(CategoryName, Undef, Undef, Undef) ELSE @]
    /\ runs' = NoRuns
    /\ UNCHANGED <<researchSeries, faults, ingests, notSt>>

\* POST /research/ingest with ingest set, for a sheet of the dataset's workbook
Ingest(d) ==
    /\ researchDatasets[d] # NoDataset
    /\ removals[d] # "done"
    /\ procs[<<d, "manual">>].pc = "idle"
    /\ ingests < MaxIngests
    /\ \E sheetName \in SheetNames(researchDatasets[d].workbook) :
        \E req \in RequestsFor(sheetName) :
            /\ procs' = [procs EXCEPT ![<<d, "manual">>] =
                            [IdleProc EXCEPT !.pc = "parse",
                                             !.job = Job(IngestHandler(sheetName), sheetName),
                                             !.req = req]]
            /\ runs' = RunsAtStart(<<d, "manual">>, Job(IngestHandler(sheetName), sheetName), req)
    /\ ingests' = ingests + 1
    /\ UNCHANGED <<researchSeries, researchDatasets, researchCategories, faults, notSt>>

\* No handler is running
Quiet == \A p \in ProcIds : procs[p].pc \in {"idle", "done"}

\* An ingest request that arrives when no handler is running
IngestAlone(d) == Quiet /\ Ingest(d)

\* The first ingest request, whatever else is running
FirstIngest(d) == ingests = 0 /\ Ingest(d)

\* A handler that clears the sheet's records before it validates the sheet
ParseAfterDelete(p) ==
    /\ procs[p].pc = "parse"
    /\ researchSeries' = DeleteMany(researchSeries, p[1], SourceSheetOf(procs[p].job))
    /\ procs' = [procs EXCEPT ![p] =
                    AfterParse(procs[p], p[2],
                               HandlerParse(procs[p].job, p[2], researchDatasets[p[1]].doc,
                                            researchDatasets[p[1]].workbook, procs[p].req,
                                            researchSeries, DatasetDocs(StoredDatasets),
                                            researchCategories[CategoryId]))]
    /\ runs' = RunsAfter(p, procs'[p], researchSeries')
    /\ UNCHANGED <<researchDatasets, researchCategories, faults, ingests, notSt>>

\* The reads and the computation of the handler, up to its first write or
\* its error answer
Parse(p) ==
    /\ procs[p].pc = "parse"
    /\ procs' = [procs EXCEPT ![p] =
                    AfterParse(procs[p], p[2],
                               HandlerParse(procs[p].job, p[2], researchDatasets[p[1]].doc,
                                            researchDatasets[p[1]].workbook, procs[p].req,
                                            researchSeries, DatasetDocs(StoredDatasets),
                                            researchCategories[CategoryId]))]
    /\ runs' = RunsAfter(p, procs'[p], researchSeries)
    /\ UNCHANGED <<researchSeries, researchDatasets, researchCategories, faults, ingests, notSt>>

\* ResearchSeries.deleteMany({ datasetId, sourceSheet })
Delete(p) ==
    /\ procs[p].pc = "delete"
    /\ researchSeries' = DeleteMany(researchSeries, p[1], SourceSheetOf(procs[p].job))
    /\ procs' = [procs EXCEPT ![p].pc = "insert"]
    /\ runs' = RunsAfter(p, procs'[p], researchSeries')
    /\ UNCHANGED <<researchDatasets, researchCategories, faults, ingests, notSt>>

\* ResearchSeries.insertMany(docs)
Insert(p) ==
    /\ procs[p].pc = "insert"
    /\ researchSeries' = researchSeries \o procs[p].docs
    /\ procs' = [procs EXCEPT ![p].pc = "ready", ![p].produced = @ \o procs[p].docs]
    /\ runs' = RunsAfter(p, procs'[p], researchSeries')
    /\ UNCHANGED <<researchDatasets, researchCategories, faults, ingests, notSt>>

\* ResearchDataset.updateOne({ _id }, { $set: { status: 'ready' } }); the
\* handler then answers, the direct path of the Ads handler after its
\* defaults update
Ready(p) ==
    /\ procs[p].pc = "ready"
    /\ researchDatasets' =
         [researchDatasets EXCEPT ![p[1]] =
            IF @ = NoDataset \/ removals[p[1]] = "done" THEN @ ELSE [@ EXCEPT !.status = "ready"]]
    /\ procs' = [procs EXCEPT ![p] =
                    IF procs[p].direct THEN [@ EXCEPT !.pc = "defaults"]
                    ELSE Finished(@, p[2], 200, "")]
    /\ runs' = RunsAfter(p, procs'[p], researchSeries)
    /\ UNCHANGED <<researchSeries, researchCategories, faults, ingests, notSt>>

\* The direct path of the Ads handler stores its metrics as the category's
\* defaults
UpdateAdsDefaults(p) ==
    /\ procs[p].pc = "defaults"
    /\ researchCategories' =
         [researchCategories EXCEPT ![CategoryId].adsDefaults = AdsDefaults(procs[p].docs, @)]
    /\ procs' = [procs EXCEPT ![p] = Finished(@, p[2], 200, "")]
    /\ runs' = RunsAfter(p, procs'[p], researchSeries)
    /\ UNCHANGED <<researchSeries, researchDatasets, faults, ingests, notSt>>

\* The Market-research handler stores the fee, the tier and the weights on
\* the category
PersistConstants(p) ==
    /\ procs[p].pc = "constants"
    /\ researchCategories' =
         [researchCategories EXCEPT ![CategoryId] = WithConstants(@, procs[p].weighed)]
    /\ procs' = [procs EXCEPT ![p].pc = "monthlyDelete"]
    /\ runs' = RunsAfter(p, procs'[p], researchSeries)
    /\ UNCHANGED <<researchSeries, researchDatasets, faults, ingests, notSt>>

\* deleteMany({ datasetId, sourceSheet, metric: { $in: [...] } })
MonthlyDelete(p) ==
    /\ procs[p].pc = "monthlyDelete"
    /\ researchSeries' =
         SelectSeq(researchSeries,
                   LAMBDA doc : ~(/\ MatchesDelete(doc, p[1], "Market-research")
                                  /\ doc.metric \in MonthlyMetrics))
    /\ procs' = [procs EXCEPT ![p].pc = "monthlyInsert"]
    /\ runs' = RunsAfter(p, procs'[p], researchSeries')
    /\ UNCHANGED <<researchDatasets, researchCategories, faults, ingests, notSt>>

\* insertMany of the three monthly records
MonthlyInsert(p) ==
    /\ procs[p].pc = "monthlyInsert"
    /\ researchSeries' =
         researchSeries \o MonthlyDocs(researchDatasets[p[1]].doc, procs[p].weighed)
    /\ procs' = [procs EXCEPT ![p].pc = "referral",
                              ![p].produced =
                                  @ \o MonthlyDocs(researchDatasets[p[1]].doc, procs[p].weighed)]
    /\ runs' = RunsAfter(p, procs'[p], researchSeries')
    /\ UNCHANGED <<researchDatasets, researchCategories, faults, ingests, notSt>>

\* The Market-research handler stores a referral default on the category
PersistReferralDefault(p) ==
    /\ procs[p].pc = "referral"
    /\ researchCategories' =
         [researchCategories EXCEPT ![CategoryId] = WithReferralDefault(@, ReferralRules)]
    /\ procs' = [procs EXCEPT ![p].pc = "delete"]
    /\ runs' = RunsAfter(p, procs'[p], researchSeries)
    /\ UNCHANGED <<researchSeries, researchDatasets, faults, ingests, notSt>>

\* Throw with the dataset marked failed when the handler answers 500
ThrowMarkingFailed(p) ==
    /\ procs[p].pc \in ThrowingPcs
    /\ faults < MaxFaults
    /\ faults' = faults + 1
    /\ procs' = [procs EXCEPT ![p] = AfterThrow(@, p[2])]
    /\ researchDatasets' =
         [researchDatasets EXCEPT ![p[1]] =
            IF procs'[p].pc # procs[p].pc /\ procs'[p].results # procs[p].results
               /\ procs'[p].results[Len(procs'[p].results)].status = 500
            THEN [@ EXCEPT !.status = "failed"] ELSE @]
    /\ runs' = RunsAfter(p, procs'[p], researchSeries)
    /\ UNCHANGED <<researchSeries, researchCategories, ingests, notSt>>

\* The database operation the handler awaits throws
Throw(p) ==
    /\ procs[p].pc \in ThrowingPcs
    /\ faults < MaxFaults
    /\ faults' = faults + 1
    /\ procs' = [procs EXCEPT ![p] = AfterThrow(@, p[2])]
    /\ runs' = RunsAfter(p, procs'[p], researchSeries)
    /\ UNCHANGED <<researchSeries, researchDatasets, researchCategories, ingests, notSt>>

\* DELETE /research/datasets/:id, after findById: ResearchSeries.deleteMany({
\* datasetId })
DeleteDatasetSeries(d) ==
    /\ researchDatasets[d] # NoDataset
    /\ removals[d] = "none"
    /\ researchSeries' = SelectSeq(researchSeries, LAMBDA doc : doc.datasetId # d)
    /\ removals' = [removals EXCEPT ![d] = "series"]
    /\ runs' = NoRuns
    /\ UNCHANGED <<researchDatasets, researchCategories, procs, faults, ingests, notStRm>>

\* ResearchDataset.deleteOne({ _id }), then the answer { deleted: true }
DeleteDatasetDoc(d) ==
    /\ removals[d] = "series"
    /\ removals' = [removals EXCEPT ![d] = "done"]
    /\ UNCHANGED <<stVars, notStRm>>

\* A step of the handler p
Step(p) ==
    \/ Parse(p) \/ Delete(p) \/ Insert(p) \/ Ready(p) \/ UpdateAdsDefaults(p)
    \/ PersistConstants(p) \/ MonthlyDelete(p) \/ MonthlyInsert(p)
    \/ PersistReferralDefault(p)

\* ------------------------------------------------------------------------
\* Properties of the store
\* ------------------------------------------------------------------------

\* The number of copies of doc among records
Copies(records, doc) == Cardinality({i \in 1..Len(records) : records[i] = doc})

\* The same records, each as many times, in whatever order
SameRecords(a, b) ==
    \A doc \in {a[i] : i \in 1..Len(a)} \cup {b[i] : i \in 1..Len(b)} :
        Copies(a, doc) = Copies(b, doc)

\* Every document of docs is among records
AllStored(docs, records) ==
    \A k \in 1..Len(docs) : \E i \in 1..Len(records) : records[i] = docs[k]

\* C1: an ingest request that succeeds twice in a row, with no other
\* ingestion in between, leaves the dataset with the records it had after
\* the first run: none duplicated, none accumulated
C1_ReingestionLeavesSameRecords ==
    runs.n = 2 => SameRecords(runs.once, runs.twice)

\* What the code does instead: the second run of a Market Analysis request
\* leaves the records of the other sheets as they were and one more cogs_cap,
\* profit, margin and roi record
C1_DerivedRecordsAccumulate ==
    (runs.n = 2 /\ runs.job.handler = "Market Analysis") =>
        /\ SameRecords(SelectSeq(runs.once, LAMBDA doc : doc.sourceSheet # "Derived"),
                       SelectSeq(runs.twice, LAMBDA doc : doc.sourceSheet # "Derived"))
        /\ \A metric \in {"cogs_cap", "profit", "margin", "roi"} :
              Len(SelectSeq(runs.twice,
                            LAMBDA doc : doc.sourceSheet = "Derived" /\ doc.metric = metric))
                = Len(SelectSeq(runs.once,
                                LAMBDA doc : doc.sourceSheet = "Derived" /\ doc.metric = metric))
                    + 1

\* The other handlers leave the records of the first run
C1_OtherHandlersLeaveSameRecords ==
    (runs.n = 2 /\ runs.job.handler # "Market Analysis") =>
        SameRecords(runs.once, runs.twice)

\* C2: after an ingest request has answered 200, the records of the dataset
\* with the handler's sourceSheet are the records the handler inserted with
\* that sourceSheet, and the dataset is ready
C2_SuccessfulIngestionReplaces ==
    \A d \in DatasetIds :
        (/\ Quiet
         /\ procs[<<d, "manual">>].results # <<>>
         /\ procs[<<d, "manual">>].results[1].status = 200) =>
            /\ SameRecords(
                 SelectSeq(researchSeries,
                           LAMBDA doc : MatchesDelete(doc, d,
                              SourceSheetOf(procs[<<d, "manual">>].results[1].job))),
                 SelectSeq(procs[<<d, "manual">>].results[1].produced,
                           LAMBDA doc : doc.sourceSheet =
                              SourceSheetOf(procs[<<d, "manual">>].results[1].job)))
            /\ researchDatasets[d].status = "ready"

\* The same with the documents of the handler's final insertMany in place of
\* every document it inserted
C2_FinalInsertReplaces ==
    \A d \in DatasetIds :
        (/\ Quiet
         /\ procs[<<d, "manual">>].results # <<>>
         /\ procs[<<d, "manual">>].results[1].status = 200) =>
            /\ SameRecords(
                 SelectSeq(researchSeries,
                           LAMBDA doc : MatchesDelete(doc, d,
                              SourceSheetOf(procs[<<d, "manual">>].results[1].job))),
                 SelectSeq(procs[<<d, "manual">>].results[1].docs,
                           LAMBDA doc : doc.sourceSheet =
                              SourceSheetOf(procs[<<d, "manual">>].results[1].job)))
            /\ researchDatasets[d].status = "ready"

\* The outcome of the handler of job on its own, for the workbook of d
OwnParse(d, job) ==
    HandlerParse(job, "auto", researchDatasets[d].doc, researchDatasets[d].workbook, NoRequest,
                 researchSeries, DatasetDocs(researchDatasets), researchCategories[CategoryId])

\* C5: when the auto-ingestion of a workbook is over, every expected sheet
\* with rows has been handed to its handler, in order, whatever the sheets
\* before it came to; a sheet whose own parse succeeds and whose writes did
\* not throw has answered 200, and the records of every sheet that answered
\* 200 are in the store
C5_SheetsIngestedIndependently ==
    procs[<<"d1", "auto">>].pc = "done" =>
        /\ [i \in 1..Len(procs[<<"d1", "auto">>].results) |->
                procs[<<"d1", "auto">>].results[i].job]
             = AutoJobs(researchDatasets["d1"].workbook)
        /\ \A i \in 1..Len(procs[<<"d1", "auto">>].results) :
              /\ procs[<<"d1", "auto">>].results[i].status \in {200, 400, 500}
              /\ procs[<<"d1", "auto">>].results[i].status = 400 =>
                    OwnParse("d1", procs[<<"d1", "auto">>].results[i].job).status = 400
              /\ procs[<<"d1", "auto">>].results[i].status = 500 => faults > 0
              /\ procs[<<"d1", "auto">>].results[i].status = 200 =>
                    /\ procs[<<"d1", "auto">>].results[i].docs # <<>>
                    /\ AllStored(procs[<<"d1", "auto">>].results[i].docs, researchSeries)

\* The Market Analysis sheet without a Sample Type column has answered 400
\* and the Fulfillment sheet of the same workbook is stored
C5_Witness ==
    /\ procs[<<"d1", "auto">>].pc = "done"
    /\ researchDatasets["d1"].workbook = NoSampleTypeWorkbook
    /\ Len(procs[<<"d1", "auto">>].results) = 2
    /\ procs[<<"d1", "auto">>].results[1].job.handler = "Market Analysis"
    /\ procs[<<"d1", "auto">>].results[1].status = 400
    /\ procs[<<"d1", "auto">>].results[1].error
         = "Sample Type column not found in Market Analysis sheet"
    /\ procs[<<"d1", "auto">>].results[2].job.handler = "Fulfillment"
    /\ procs[<<"d1", "auto">>].results[2].status = 200
    /\ procs[<<"d1", "auto">>].results[2].docs # <<>>
    /\ AllStored(procs[<<"d1", "auto">>].results[2].docs, researchSeries)

\* C10: a step of the ingestion of a dataset, its upload included, leaves
\* the records and the status of every other dataset as they were
C10_NoCrossDatasetEffects ==
    [][\A a \in DatasetIds : \A b \in DatasetIds \ {a} :
          (\E slot \in Slots : procs'[<<a, slot>>] # procs[<<a, slot>>]) =>
              /\ RecordsOf(researchSeries', b) = RecordsOf(researchSeries, b)
              /\ researchDatasets'[b] = researchDatasets[b]]_vars

\* Both datasets hold records while a re-ingestion of d1 is between its
\* delete and its insert and the auto-ingestion of d2 is between its insert
\* and its status update
C10_Witness ==
    /\ procs[<<"d1", "manual">>].pc = "insert"
    /\ procs[<<"d2", "auto">>].pc = "ready"
    /\ RecordsOf(researchSeries, "d1") # <<>>
    /\ \E i \in 1..Len(researchSeries) :
          /\ researchSeries[i].datasetId = "d2"
          /\ researchSeries[i].sourceSheet = "Market Analysis"

\* C11: once the DELETE request of a dataset has answered, the store holds
\* no record with its datasetId, in that state and in every later one, the
\* background auto-ingestion of its upload still running or not
C11_NoRecordOfDeletedDataset ==
    \A d \in DatasetIds : removals[d] = "done" => RecordsOf(researchSeries, d) = <<>>

\* A Market-research request of d has answered 200 with no thrown operation,
\* for a dataset whose month is known, and nothing is running
MarketResearchIngested(d) ==
    /\ Quiet
    /\ faults = 0
    /\ procs[<<d, "manual">>].results # <<>>
    /\ procs[<<d, "manual">>].results[1].job.handler = "Market-research"
    /\ procs[<<d, "manual">>].results[1].status = 200
    /\ DatasetBucket(researchDatasets[d].doc) # "overall"

\* The category holds the fee, the tier and the weights the handler computed
ConstantsPersisted(cat) ==
    /\ IsNum(cat.fbaFeeUsd)
    /\ IsStr(cat.sizeTierEstimate)
    /\ IsNum(cat.avgWeightLb)
    /\ IsNum(cat.avgVolumeIn3)

\* C12: after a successful Market-research ingestion of a dataset whose month
\* is known, the store holds an avg_weight_lb, an avg_volume_in3 and an
\* fba_fee record of the dataset in that month, and the category holds the
\* computed constants
C12_MonthlyRecordsAndConstants ==
    \A d \in DatasetIds :
        MarketResearchIngested(d) =>
            /\ \A metric \in MonthlyMetrics :
                  \E i \in 1..Len(researchSeries) :
                      /\ researchSeries[i].datasetId = d
                      /\ researchSeries[i].metric = metric
                      /\ researchSeries[i].bucket = DatasetBucket(researchDatasets[d].doc)
            /\ ConstantsPersisted(researchCategories[CategoryId])

\* What the code does instead: the constants are on the category, and the
\* only Market-research record of the dataset is the overall fba_fee
C12_OnlyOverallFeeRemains ==
    \A d \in DatasetIds :
        MarketResearchIngested(d) =>
            /\ ConstantsPersisted(researchCategories[CategoryId])
            /\ Len(SelectSeq(researchSeries,
                             LAMBDA doc : MatchesDelete(doc, d, "Market-research"))) = 1
            /\ \A i \in 1..Len(researchSeries) :
                  MatchesDelete(researchSeries[i], d, "Market-research") =>
                      /\ researchSeries[i].metric = "fba_fee"
                      /\ researchSeries[i].bucket = "overall"
                      /\ Num(researchSeries[i].value) = researchCategories[CategoryId].fbaFeeUsd

\* The last outcome of a handler
LastOutcome(proc) == proc.results[Len(proc.results)]

\* C13: a handler that answers with a missing column, no valid row, no size
\* tier or no fee band (status 400) has answered from its reads alone: the
\* records, the datasets with their status and the categories are what they
\* were when it was called, and the answer carries the error text
C13_ErrorLeavesStoreUnchanged ==
    [][\A p \in ProcIds :
          (/\ procs'[p].results # procs[p].results
           /\ procs'[p].results # <<>>
           /\ LastOutcome(procs'[p]).status = 400) =>
              /\ procs[p].pc = "parse"
              /\ LastOutcome(procs'[p]).error # ""
              /\ LastOutcome(procs'[p]).produced = <<>>
              /\ researchSeries' = researchSeries
              /\ researchDatasets' = researchDatasets
              /\ researchCategories' = researchCategories]_vars

\* A request for a sheet no size tier fits has answered 400 while the
\* dataset holds the records and the category the constants of an earlier
\* Market-research ingestion
C13_Witness ==
    /\ procs[<<"d1", "manual">>].pc = "idle"
    /\ procs[<<"d1", "manual">>].results # <<>>
    /\ procs[<<"d1", "manual">>].results[1].job.sheetName = "Market-research(2)-US"
    /\ procs[<<"d1", "manual">>].results[1].status = 400
    /\ procs[<<"d1", "manual">>].results[1].error
         = "No size tier matches given Avg.Weight/Avg.Volume"
    /\ \E i \in 1..Len(researchSeries) :
          MatchesDelete(researchSeries[i], "d1", "Market-research")
    /\ ConstantsPersisted(researchCategories[CategoryId])
    /\ researchDatasets["d1"].status = "ready"

\* The five standard handlers
StandardHandlers ==
    {"Market Analysis", "Listing Concentration", "Fulfillment", "Origin of Seller",
     "Publication Time"}

\* The outcome res is of a standard sheet of d that has its header row and
\* no data row
OfHeaderOnlySheet(d, res) ==
    /\ res.job.handler \in StandardHandlers
    /\ Len(ReadSheetAsArray(researchDatasets[d].workbook, res.job.sheetName)) = 1

\* C14: a standard sheet whose columns resolve and that has no valid data row
\* ends in an error and writes no record, whichever of the five handlers
\* reads it
C14_NoValidRowsIsAnError ==
    \A p \in ProcIds : \A i \in 1..Len(procs[p].results) :
        OfHeaderOnlySheet(p[1], procs[p].results[i]) =>
            /\ procs[p].results[i].status = 400
            /\ procs[p].results[i].produced = <<>>

\* What the code does: four handlers answer 400; Listing Concentration has no
\* such check and, unless a write throws, replaces the sheet's records with
\* one top10 record of value 0
C14_ListingConcentrationWritesZero ==
    \A p \in ProcIds : \A i \in 1..Len(procs[p].results) :
        OfHeaderOnlySheet(p[1], procs[p].results[i]) =>
            IF procs[p].results[i].job.handler # "Listing Concentration"
            THEN /\ procs[p].results[i].status = 400
                 /\ procs[p].results[i].produced = <<>>
            ELSE \/ procs[p].results[i].status = 500
                 \/ /\ procs[p].results[i].status = 200
                    /\ Len(procs[p].results[i].produced) = 1
                    /\ procs[p].results[i].produced[1].metric = "listing_concentration"
                    /\ procs[p].results[i].produced[1].bucket = "top10"
                    /\ procs[p].results[i].produced[1].value = 0

\* The step parses an Ads sheet of p[1] on the category-aggregate path with
\* no avg-price column, and the parse succeeds
AdsAggregateParsed(p) ==
    /\ procs[p].pc = "parse"
    /\ procs[p].job.handler = "Ads Metrics"
    /\ procs'[p].pc = "delete"
    /\ AdsColumnsOf(ReadSheetAsArray(researchDatasets[p[1]].workbook,
                                     procs[p].job.sheetName)).clicks # 0
    /\ AdsColumnsOf(ReadSheetAsArray(researchDatasets[p[1]].workbook,
                                     procs[p].job.sheetName)).avgPrice = 0

\* The dataset d has no avg_price record in the bucket of its month
NoOwnBucketPrice(d) ==
    \A i \in 1..Len(researchSeries) :
        ~ /\ researchSeries[i].datasetId = d
          /\ researchSeries[i].metric = "avg_price"
          /\ researchSeries[i].bucket = BucketGuess(researchDatasets[d].doc)

\* Another dataset of the category, a US-Market file of the month of d, has
\* a Market Analysis avg_price record in the bucket of that month
MatchingDatasetHasPrice(d) ==
    /\ BucketGuess(researchDatasets[d].doc) # ""
    /\ \E e \in DatasetIds \ {d} :
          /\ StoredDatasets[e] # NoDataset
          /\ researchDatasets[e].doc.categoryId = researchDatasets[d].doc.categoryId
          /\ IsUsMarketFile(researchDatasets[e].doc.originalFilename,
                            WithoutFirstDash(BucketGuess(researchDatasets[d].doc)))
          /\ \E i \in 1..Len(researchSeries) :
                /\ researchSeries[i].datasetId = e
                /\ researchSeries[i].metric = "avg_price"
                /\ researchSeries[i].bucket = BucketGuess(researchDatasets[d].doc)
                /\ IsMarketAnalysisSheet(researchSeries[i].sourceSheet)

HasMetric(docs, metric) == \E k \in 1..Len(docs) : docs[k].metric = metric

\* C15: when the sheet has no avg-price column and the dataset has no
\* avg_price record in its bucket, and a matching dataset of the category
\* for the same month has an avg_price record, the category-aggregate path
\* uses that record: with cr and cpc computed it emits a roas record
C15_MatchingDatasetPriceUsed ==
    [][\A p \in ProcIds :
          (/\ AdsAggregateParsed(p)
           /\ NoOwnBucketPrice(p[1])
           /\ MatchingDatasetHasPrice(p[1])
           /\ HasMetric(procs'[p].docs, "cr")
           /\ HasMetric(procs'[p].docs, "cpc")) =>
              HasMetric(procs'[p].docs, "roas")]_vars

\* What the code does: the look-up in the dataset's own bucket overwrites
\* what the matching dataset gave, so with no avg_price record of its own
\* the dataset gets no roas record
C15_MatchingDatasetPriceDiscarded ==
    [][\A p \in ProcIds :
          (/\ AdsAggregateParsed(p)
           /\ \A i \in 1..Len(researchSeries) :
                 ~ /\ researchSeries[i].datasetId = p[1]
                   /\ researchSeries[i].metric = "avg_price") =>
              ~HasMetric(procs'[p].docs, "roas")]_vars

\* Size-tier rules with the large tier ahead of the small one
LargeFirstTiers == << AllTiers[2], AllTiers[1], AllTiers[3] >>

\* A small tier with two maxima, in ounces, and a large tier with none
OpenTiers ==
    << SizeTierRule("Small standard-size", Num(15 * Scale), Null, Undef, Null,
                    Num(16 * Scale), "in", "oz"),
       SizeTierRule("Large standard-size", Null, Null, Undef, Undef, Null, "in", "lb") >>

TierLists == {AllTiers, LargeFirstTiers, OpenTiers}

\* Fee rules with a band that has a base fee and no overage rule, and a band
\* with two overage rules
BaseOnlyFeeRules ==
    << FbaFeeRule("Small Standard", Str("oz"), Num(0), Num(16 * Scale), Num(322), Null, <<>>),
       FbaFeeRule("Large Standard", Str("lb"), Num(0), Num(3 * Scale), Null, Num(577), <<>>),
       FbaFeeRule("Large Standard", Str("lb"), Num(3 * Scale), Null, Null, Num(725),
                  <<OverageRule(3 * Scale, "lb", 50, 16),
                    OverageRule(10 * Scale, "lb", 1 * Scale, 100)>>),
       FbaFeeRule("Small Oversize", Undef, Undef, Null, Null, Num(973),
                  <<OverageRule(16 * Scale, "oz", 16 * Scale, 42)>>) >>

\* Fee rules whose bands overlap: the band with the fixed fee comes second
OverlappingFeeRules ==
    << FbaFeeRule("Small Standard", Str("oz"), Num(0), Num(16 * Scale), Num(322), Null, <<>>),
       FbaFeeRule("Large Standard", Str("lb"), Num(0), Num(30 * Scale), Null, Num(600),
                  <<OverageRule(2 * Scale, "lb", 25, 10)>>),
       FbaFeeRule("Large Standard", Str("lb"), Num(0), Null, Num(386), Null, <<>>) >>

FeeRuleLists == {FbaFeeRules, BaseOnlyFeeRules, OverlappingFeeRules}

\* The handler has come to the fee look-up: a tier is matched and it has fee
\* rules
AtFeeBands ==
    /\ wtOut.done
    /\ MatchedTier(wtIn.allTiers, wtOut.res.chain) # ""
    /\ FeeRulesOfTier(wtIn.fbaFeeRules, MatchedTier(wtIn.allTiers, wtOut.res.chain)) # <<>>

\* The fee rules of the matched tier, and the first of them whose band holds
\* the shipping weight (0 when there is none)
TierFeeRules == FeeRulesOfTier(wtIn.fbaFeeRules, MatchedTier(wtIn.allTiers, wtOut.res.chain))
FirstBand ==
    FindIndex(TierFeeRules, LAMBDA rule : InWeightBand(rule, wtOut.res.chain.shippingWeight))

\* ceil(overage / stepValue) x stepFeeUSD of an overage rule whose threshold
\* the shipping weight exceeds, 0 of one it does not
StepsFee(over, shippingWeight) ==
    IF ToUnit(shippingWeight, over.overThresholdUnit) > WeightUnits(over.overThresholdValue)
    THEN CeilDiv(ToUnit(shippingWeight, over.overThresholdUnit)
                    - WeightUnits(over.overThresholdValue),
                 WeightUnits(over.stepValue)) * over.stepFeeUSD
    ELSE 0

RECURSIVE SumStepsFee(_, _)
SumStepsFee(overageRules, shippingWeight) ==
    IF overageRules = <<>> THEN 0
    ELSE StepsFee(Head(overageRules), shippingWeight)
            + SumStepsFee(Tail(overageRules), shippingWeight)

\* feeUSD when the rule has one, else baseUSD and the fees of the steps
BandFee(rule, shippingWeight) ==
    IF ~IsNullish(rule.feeUSD) THEN rule.feeUSD
    ELSE Num(rule.baseUSD.n + SumStepsFee(rule.overageRules, shippingWeight))

\* C16: the fee is that of the first rule of the matched tier whose band
\* holds the shipping weight: its feeUSD, else its baseUSD plus the steps of
\* every overage rule exceeded (baseUSD alone when there is none); the
\* missing-band error is answered only when no band holds the weight
C16_FeeOfFirstBand ==
    AtFeeBands =>
        IF FirstBand = 0
        THEN /\ wtOut.res.status = 400
             /\ wtOut.res.error = "No matching weight band in FBA fee rules"
        ELSE /\ wtOut.res.status = 200
             /\ wtOut.res.feeUSD = BandFee(TierFeeRules[FirstBand],
                                            wtOut.res.chain.shippingWeight)

\* The rule has a fee the code computes: a feeUSD, or a baseUSD with at least
\* one overage rule
HasComputedFee(rule) ==
    \/ ~IsNullish(rule.feeUSD)
    \/ ~IsNullish(rule.baseUSD) /\ rule.overageRules # <<>>

\* What the code does: the same, except that a band with a baseUSD and no
\* overage rule is answered with the missing-band error
C16_BaseAloneIsAnError ==
    AtFeeBands =>
        IF FirstBand = 0 \/ ~HasComputedFee(TierFeeRules[FirstBand])
        THEN /\ wtOut.res.status = 400
             /\ wtOut.res.error = "No matching weight band in FBA fee rules"
             /\ wtOut.res.feeUSD = Null
        ELSE /\ wtOut.res.status = 200
             /\ wtOut.res.feeUSD = BandFee(TierFeeRules[FirstBand],
                                            wtOut.res.chain.shippingWeight)

\* A band with a base fee and two overage rules, both exceeded: 25 lb is
\* 44 steps of half a pound over 3 lb and 15 steps of a pound over 10 lb
C16_OverageWitness ==
    /\ wtOut.done /\ wtIn.w = 25 * Scale /\ wtIn.v = 8 * Scale
    /\ wtIn.allTiers = OpenTiers /\ wtIn.fbaFeeRules = BaseOnlyFeeRules
    /\ wtOut.res.status = 200
    /\ wtOut.res.feeUSD = Num(725 + 44 * 16 + 15 * 100)

\* The handler has come to the size tiers: the sheet gave a weight and a
\* volume
AtSizeTiers ==
    /\ wtOut.done
    /\ wtOut.res.avgWeightLb = Num(wtIn.w)
    /\ wtOut.res.avgVolumeIn3 = Num(wtIn.v)

\* The rules of the list that fit the computed dimensions and weight
FittingTiers == {i \in 1..Len(wtIn.allTiers) : TierFits(wtIn.allTiers[i], wtOut.res.chain)}

\* The rule gives none of the five maxima
NoMaximum(rule) ==
    /\ IsNullish(rule.longestMax) /\ IsNullish(rule.medianMax) /\ IsNullish(rule.shortestMax)
    /\ IsNullish(rule.lengthGirthMax) /\ IsNullish(rule.shippingWeightMax)

\* C17: the tier is that of the first rule of the list that fits, whatever
\* rules come after it; a rule without a maximum fits everything; when no
\* rule fits the handler answers the size-tier error with no tier and no fee
C17_FirstFittingTier ==
    AtSizeTiers =>
        /\ \A i \in 1..Len(wtIn.allTiers) : NoMaximum(wtIn.allTiers[i]) => i \in FittingTiers
        /\ IF FittingTiers = {}
           THEN /\ wtOut.res.status = 400
                /\ wtOut.res.error = "No size tier matches given Avg.Weight/Avg.Volume"
                /\ wtOut.res.tier = ""
                /\ wtOut.res.feeUSD = Null
           ELSE /\ wtOut.res.error # "No size tier matches given Avg.Weight/Avg.Volume"
                /\ \E i \in FittingTiers :
                      /\ \A j \in FittingTiers : i <= j
                      /\ wtOut.res.tier = NormalizeTierName(wtIn.allTiers[i].tier)

\* A 1-inch cube of 0.24 lb fits the small tier, for its length and its
\* weight in ounces, and the large tier, which has no maximum: it is small
C17_Witness ==
    /\ wtOut.done /\ wtIn.w = 24 /\ wtIn.v = 1 * Scale
    /\ wtIn.allTiers = OpenTiers
    /\ FittingTiers = {1, 2}
    /\ wtOut.res.tier = "Small Standard"

\* No rule fits an 80 lb sheet
C17_NoTierWitness ==
    /\ wtOut.done /\ wtIn.w = 80 * Scale /\ wtIn.allTiers = AllTiers
    /\ FittingTiers = {}
    /\ wtOut.res.status = 400

\* The documents of the handler, and the row of a derived record: docs[k] is
\* a cogs_cap record, the avg_price record of its row is one or two places
\* before it, the referral_fee record, when there is one, between them
EnrichDocs == maOut.res.docs
HasReferralFee(k) == EnrichDocs[k - 1].metric = "referral_fee"
PriceDocOf(k) == IF HasReferralFee(k) THEN EnrichDocs[k - 2] ELSE EnrichDocs[k - 1]
ReferralOf(k) == IF HasReferralFee(k) THEN EnrichDocs[k - 1].value ELSE 0

\* p - (0.2p + (r + f) + 0.2p)
ProfitOf(p, r, f) == p - (Mul(20, p) + (r + f) + Mul(20, p))

\* C18: every valid row of price p > 0, referral fee r (0 when the row has no
\* referral_fee record) and FBA fee f (0 when none is known) gives, in the
\* row's bucket, cogs_cap = profit = p - (0.2p + (r + f) + 0.2p),
\* margin = profit / p x 100 and roi = profit / (0.2p) x 100 = 5 x margin
C18_DerivedMetrics ==
    maOut.done =>
        /\ \A metric \in {"avg_price", "cogs_cap", "profit", "margin", "roi"} :
              Len(DocsOfMetric(EnrichDocs, metric)) = Len(ValidRows(maRows))
        /\ \A k \in 1..Len(EnrichDocs) :
              EnrichDocs[k].metric = "cogs_cap" =>
                /\ PriceDocOf(k).metric = "avg_price"
                /\ PriceDocOf(k).value > 0
                /\ EnrichDocs[k].value
                     = ProfitOf(PriceDocOf(k).value, ReferralOf(k),
                                FbaFeeOrZero(EnrichFbaFee(feeIn.cat)))
                /\ EnrichDocs[k + 1].metric = "profit"
                /\ EnrichDocs[k + 1].value = EnrichDocs[k].value
                /\ EnrichDocs[k + 2].metric = "margin"
                /\ EnrichDocs[k + 2].value * PriceDocOf(k).value
                     = EnrichDocs[k + 1].value * 100 * Scale
                /\ EnrichDocs[k + 3].metric = "roi"
                /\ EnrichDocs[k + 3].value * Mul(20, PriceDocOf(k).value)
                     = EnrichDocs[k + 1].value * 100 * Scale
                /\ EnrichDocs[k + 3].value = 5 * EnrichDocs[k + 2].value
                /\ \A j \in k..(k + 3) :
                      /\ EnrichDocs[j].bucket = PriceDocOf(k).bucket
                      /\ EnrichDocs[j].sourceSheet = "Derived"

\* A row of price 20 with a referral fee of 3.00 from the category default
\* and no FBA fee: profit 9.00, margin 45 %, roi 225 %; and the same row under
\* a category look-up that throws, with the fees at 0: profit 12.00
C18_Witness ==
    /\ maOut.done /\ Len(maRows) = 1 /\ maRows[1].cells[6] = Num(20 * Scale)
    /\ feeIn.cat = Category("Home & Kitchen", Num(15), Num(100), Undef)
    /\ feeIn.rules = OtherCategoryOnly
    /\ Len(EnrichDocs) = 10
    /\ EnrichDocs[4].metric = "referral_fee" /\ EnrichDocs[4].value = 3 * Scale
    /\ EnrichDocs[5].metric = "cogs_cap" /\ EnrichDocs[5].value = 9 * Scale
    /\ EnrichDocs[6].metric = "profit" /\ EnrichDocs[6].value = 9 * Scale
    /\ EnrichDocs[7].metric = "margin" /\ EnrichDocs[7].value = 45 * Scale
    /\ EnrichDocs[8].metric = "roi" /\ EnrichDocs[8].value = 225 * Scale

C18_NoFeeWitness ==
    /\ maOut.done /\ Len(maRows) = 1 /\ maRows[1].cells[6] = Num(20 * Scale)
    /\ feeIn.cat = Thrown
    /\ Len(EnrichDocs) = 9
    /\ EnrichDocs[4].metric = "cogs_cap" /\ EnrichDocs[4].value = 12 * Scale
    /\ EnrichDocs[7].metric = "roi" /\ EnrichDocs[7].value = 300 * Scale

\* No rule of the table matches the category and the price
NoRuleMatches(cat, rules, p) == rules # <<Thrown>> /\ MatchingRules(rules, cat.name, p) = <<>>

\* The category has a positive default percent
HasPositiveDefault(cat) ==
    IsNum(cat.referralFeePercentDefault) /\ cat.referralFeePercentDefault.n > 0

\* C19: the referral-fee enrichment never fails the sheet: every valid row
\* gives its sales_units, revenue, avg_price, avg_ratings, avg_rating and
\* derived records and the sheet answers 200 when it has a valid row; with
\* no matching rule the fee is price x default percent, at least the minimum
\* fee, when the category has a positive default; without one, or when the
\* category or the rule look-up throws, the row has no referral_fee record
\* and its derived records take the referral fee as 0
C19_EnrichmentNeverFails ==
    maOut.done =>
        /\ (maOut.res.status = 200) = (ValidRows(maRows) # <<>>)
        /\ maOut.res.status \in {200, 400}
        /\ \A metric \in {"sales_units", "revenue", "avg_price", "avg_ratings", "avg_rating",
                          "cogs_cap", "profit", "margin", "roi"} :
              Len(DocsOfMetric(EnrichDocs, metric)) = Len(ValidRows(maRows))
        /\ \A k \in 1..Len(EnrichDocs) :
              EnrichDocs[k].metric = "avg_price" =>
                IF feeIn.cat \in {Null, Thrown} \/ feeIn.rules = <<Thrown>>
                   \/ (/\ NoRuleMatches(feeIn.cat, feeIn.rules, EnrichDocs[k].value)
                       /\ ~HasPositiveDefault(feeIn.cat))
                THEN /\ EnrichDocs[k + 1].metric = "cogs_cap"
                     /\ EnrichDocs[k + 1].value
                          = ProfitOf(EnrichDocs[k].value, 0,
                                     FbaFeeOrZero(EnrichFbaFee(feeIn.cat)))
                ELSE /\ EnrichDocs[k + 1].metric = "referral_fee"
                     /\ NoRuleMatches(feeIn.cat, feeIn.rules, EnrichDocs[k].value) =>
                          /\ EnrichDocs[k + 1].value
                               >= NumOrZero(feeIn.cat.referralMinFeeUsd)
                          /\ EnrichDocs[k + 1].value
                               = Max2(Mul(EnrichDocs[k].value,
                                          feeIn.cat.referralFeePercentDefault.n),
                                      NumOrZero(feeIn.cat.referralMinFeeUsd))

\* A row of price 5 under a default of 15 % with a minimum of 1.00 and no
\* matching rule: the fee is the minimum
C19_Witness ==
    /\ maOut.done /\ Len(maRows) = 1 /\ maRows[1].cells[6] = Num(5 * Scale)
    /\ feeIn.cat = Category("Home & Kitchen", Num(15), Num(100), Undef)
    /\ feeIn.rules = <<>>
    /\ Len(EnrichDocs) = 10
    /\ EnrichDocs[4].metric = "referral_fee" /\ EnrichDocs[4].value = 1 * Scale

\* The rule look-up throws: the row has no referral_fee record and all its
\* other records
C19_ThrowWitness ==
    /\ maOut.done /\ Len(maRows) = 1 /\ maRows[1].valid
    /\ feeIn.cat = Category("Home & Kitchen", Num(15), Num(100), Undef)
    /\ feeIn.rules = <<Thrown>>
    /\ maOut.res.status = 200
    /\ Len(EnrichDocs) = 9
    /\ DocsOfMetric(EnrichDocs, "referral_fee") = <<>>

\* Fulfillment-type cells: the four codes in several spellings, and free
\* text that holds none of them
FulfillmentTypes ==
    {"FBA", "Fulfilled by Amazon (FBA)", "fbm", "AMZ Retail", "N/A", "Merchant",
     "Seller-Fulfilled", "123"}

\* A workbook with a Fulfillment sheet of one row for each type of types
FulfillmentBook(types) ==
    Workbook("fulfillment.xlsx",
             << Sheet("Fulfillment",
                      << <<Str("Fulfillment"), Str("ASINs Proportion")>> >>
                      \o [i \in 1..Len(types) |->
                            <<Str(types[i]), IF i = 1 THEN Str("62.5%") ELSE Num(3750)>>]) >>)

FulfillmentBooks ==
    {FulfillmentBook(types) : types \in [1..1 -> FulfillmentTypes] \cup [1..2 -> FulfillmentTypes]}

FulfillmentMetrics == {"fulfillment_fba", "fulfillment_fbm", "fulfillment_amz", "fulfillment_na"}

\* The Fulfillment records of the store and of the handlers at work
FulfillmentRecords ==
    SelectSeq(researchSeries, LAMBDA doc : doc.sourceSheet = "Fulfillment")
    \o (IF procs[<<"d1", "auto">>].job.handler = "Fulfillment"
        THEN procs[<<"d1", "auto">>].docs ELSE <<>>)

\* C20: every record of the Fulfillment parser has one of the four metrics,
\* whatever text the type cell holds, unit pct and bucket overall
C20_FulfillmentMetricOfFour ==
    \A k \in 1..Len(FulfillmentRecords) :
        /\ FulfillmentRecords[k].metric \in FulfillmentMetrics
        /\ FulfillmentRecords[k].unit = "pct"
        /\ FulfillmentRecords[k].bucket = "overall"

\* The letters of a type cell, lower-cased
TypeLetters(type) == KeepChars(ToLower(Trim(type)), LowerChars)

\* What the code does: unit and bucket are as stated; the metric is of the
\* four when the letters of the cell hold fba, fbm or amz or are na, and
\* fulfillment_ followed by the letters of the cell otherwise
C20_FreeTextPassesThrough ==
    \A k \in 1..Len(FulfillmentRecords) :
        /\ FulfillmentRecords[k].unit = "pct"
        /\ FulfillmentRecords[k].bucket = "overall"
        /\ \E type \in FulfillmentTypes :
              FulfillmentRecords[k].metric =
                 IF Includes(TypeLetters(type), "fba") THEN "fulfillment_fba"
                 ELSE IF Includes(TypeLetters(type), "fbm") THEN "fulfillment_fbm"
                 ELSE IF Includes(TypeLetters(type), "amz") THEN "fulfillment_amz"
                 ELSE IF TypeLetters(type) = "na" THEN "fulfillment_na"
                 ELSE "fulfillment_" \o TypeLetters(type)

\* A Merchant row is stored as fulfillment_merchant
C20_MerchantStored ==
    \E i \in 1..Len(researchSeries) : researchSeries[i].metric = "fulfillment_merchant"

\* Header cells about ratings: the plural column in three spellings, the
\* singular column in three, and two cells that are neither (one of them
\* holds both words)
PluralRatingCells == {"Avg. Ratings", "avg ratings", "Avg.  Ratings"}
SingularRatingCells == {"Avg. Rating", "Avg Rating", "AVG.  RATING"}
RatingCells ==
    PluralRatingCells \cup SingularRatingCells \cup {"Rating", "Avg. Rating (of Ratings)"}

BaseMarketHeader ==
    << Str("Time"), Str("Avg. Monthly Unit Sales"), Str("Avg. Monthly Revenue($)"),
       Str("Sample Size"), Str("Sample Type"), Str("Avg. Price($)") >>
BaseMarketCells ==
    << Str("2025-08"), Num(120 * Scale), Num(30 * Scale), Num(500 * Scale), Str("All"),
       Num(20 * Scale) >>

\* A Market Analysis sheet whose header holds the cells of cells in their
\* order, after the other columns or before them, and one data row with a
\* different number under each of them
RatingSheet(cells, first) ==
    IF first
    THEN << [j \in 1..Len(cells) |-> Str(cells[j])] \o BaseMarketHeader,
            [j \in 1..Len(cells) |-> Num((3 + j) * Scale)] \o BaseMarketCells >>
    ELSE << BaseMarketHeader \o [j \in 1..Len(cells) |-> Str(cells[j])],
            BaseMarketCells \o [j \in 1..Len(cells) |-> Num((3 + j) * Scale)] >>

RatingSheets ==
    {RatingSheet(cells, first) :
        cells \in UNION {[1..n -> RatingCells] : n \in 0..2}, first \in BOOLEAN}

\* handleMarketAnalysisSheet on the sheet hdrRows
ResolveMarketColumns ==
    /\ ~maOut.done
    /\ maOut' = [done |-> TRUE,
                 res |-> MarketAnalysisParse(MaDataset, hdrRows, HeaderOf(hdrRows, 0),
                                             MaCategory.fbaFeeUsd, MaCategory,
                                             TotalWithMinimum)]
    /\ UNCHANGED <<maRows, notMa>>

\* The columns the handler resolves in the header of hdrRows
ResolvedColumns == MarketAnalysisColumns(HeaderOf(hdrRows, 0))

HeaderHolds(cells) == \E j \in 1..Len(hdrRows[1]) : hdrRows[1][j].s \in cells

\* C21: the cell resolved for avg_rating never holds "ratings" and is never
\* the cell resolved for avg_ratings, in whatever order the cells come; the
\* records take their values from the two cells; a header with a plural cell
\* and no singular cell ends in the error that names the Avg. Rating column
C21_RatingIsNotRatings ==
    maOut.done =>
        /\ ResolvedColumns.rating # 0 =>
              /\ ~Includes(ToLower(hdrRows[1][ResolvedColumns.rating].s), "ratings")
              /\ hdrRows[1][ResolvedColumns.rating].s \in SingularRatingCells
              /\ ResolvedColumns.rating # ResolvedColumns.ratings
        /\ maOut.res.status = 200 =>
              /\ ResolvedColumns.rating # 0 /\ ResolvedColumns.ratings # 0
              /\ DocsOfMetric(maOut.res.docs, "avg_rating")[1].value
                    = hdrRows[2][ResolvedColumns.rating].n
              /\ DocsOfMetric(maOut.res.docs, "avg_ratings")[1].value
                    = hdrRows[2][ResolvedColumns.ratings].n
        /\ (HeaderHolds(PluralRatingCells) /\ ~HeaderHolds(SingularRatingCells)) =>
              /\ maOut.res.status = 400
              /\ maOut.res.error = "Avg. Rating column not found in Market Analysis sheet"

\* The singular cell comes first and the plural cell second: each record
\* takes the number under its own cell
C21_Witness ==
    /\ maOut.done
    /\ Len(hdrRows[1]) = 8
    /\ hdrRows[1][1] = Str("Avg. Rating") /\ hdrRows[1][2] = Str("Avg. Ratings")
    /\ maOut.res.status = 200
    /\ DocsOfMetric(maOut.res.docs, "avg_rating")[1].value = 4 * Scale
    /\ DocsOfMetric(maOut.res.docs, "avg_ratings")[1].value = 5 * Scale

\* The header holds the plural cell alone
C21_MissingWitness ==
    /\ maOut.done
    /\ Len(hdrRows[1]) = 7
    /\ hdrRows[1][7] = Str("Avg. Ratings")
    /\ maOut.res.status = 400
    /\ maOut.res.error = "Avg. Rating column not found in Market Analysis sheet"

\* ------------------------------------------------------------------------
\* The whole metrics-summary query (GET /research/metrics-summary)
\* ------------------------------------------------------------------------

\* The characters of the buckets in code-unit order
CodeOrder == " -/" \o DigitChars \o UpperChars \o "_" \o LowerChars

\* a <= b as strings ($gte, $lte and sort() on bucket)
RECURSIVE StrLeq(_, _)
StrLeq(a, b) ==
    IF a = "" THEN TRUE
    ELSE IF b = "" THEN FALSE
    ELSE IF CharAt(a, 1) = CharAt(b, 1) THEN StrLeq(Tail(a), Tail(b))
    ELSE IndexIn(CodeOrder, CharAt(a, 1)) < IndexIn(CodeOrder, CharAt(b, 1))

\* /(\d{4})[-_\/]?(\d{2})/ at position i of s, with and without the separator
MonthWithSep(s, i) ==
    /\ i + 6 <= Len(s)
    /\ AllDigits(SubSeq(s, i, i + 3))
    /\ CharAt(s, i + 4) \in {"-", "_", "/"}
    /\ AllDigits(SubSeq(s, i + 5, i + 6))
MonthWithoutSep(s, i) == i + 5 <= Len(s) /\ AllDigits(SubSeq(s, i, i + 5))

\* coerceMonth(b): "" stands for null
CoerceMonth(b, defaultMonth) ==
    Bind(Trim(b), LAMBDA s :
        IF Len(s) = 7 /\ MonthWithSep(s, 1) /\ CharAt(s, 5) = "-" THEN s
        ELSE IF Len(s) = 6 /\ AllDigits(s) THEN SubSeq(s, 1, 4) \o "-" \o SubSeq(s, 5, 6)
        ELSE Bind({i \in 1..Len(s) : MonthWithSep(s, i) \/ MonthWithoutSep(s, i)},
                  LAMBDA hits :
                    IF hits # {}
                    THEN Bind(CHOOSE i \in hits : \A j \in hits : i <= j, LAMBDA i :
                            SubSeq(s, i, i + 3) \o "-"
                            \o (IF MonthWithSep(s, i) THEN SubSeq(s, i + 5, i + 6)
                                ELSE SubSeq(s, i + 4, i + 5)))
                    ELSE IF defaultMonth # "" THEN defaultMonth
                    ELSE s))

\* A record of the dataset as the query reads it
SummaryRecord(metric, bucket, value, sampleType, createdAt) ==
    [metric |-> metric, bucket |-> bucket, value |-> value, sampleType |-> sampleType,
     sampleSize |-> Num(10 * Scale), createdAt |-> createdAt]

\* The query parameters: metrics is metricArr, from and to are "" when absent
SummaryQuery(metrics, from, to) == [metrics |-> metrics, from |-> from, to |-> to]

SeqRange(seq) == {seq[i] : i \in 1..Len(seq)}

\* The match of find(): the metrics named, when any is, and the bucket range
SummaryMatch(it, q) ==
    /\ (q.metrics = <<>> \/ it.metric \in SeqRange(q.metrics))
    /\ (q.from = "" \/ StrLeq(q.from, it.bucket))
    /\ (q.to = "" \/ StrLeq(it.bucket, q.to))

\* sort({ bucket: 1 }): a stable ascending sort
RECURSIVE SortByBucket(_)
SortByBucket(items) ==
    IF items = <<>> THEN <<>>
    ELSE Bind(SortByBucket(SubSeq(items, 1, Len(items) - 1)), LAMBDA sorted :
         Bind(items[Len(items)], LAMBDA it :
         Bind(Cardinality({i \in 1..Len(sorted) : StrLeq(sorted[i].bucket, it.bucket)}),
              LAMBDA n : SubSeq(sorted, 1, n) \o <<it>> \o SubSeq(sorted, n + 1, Len(sorted)))))

\* itemsRaw after the Sample Type filter
SummaryItemsRaw(records, q) ==
    SelectSeq(SortByBucket(SelectSeq(records, LAMBDA it : SummaryMatch(it, q))),
              LAMBDA it : it.metric \notin SUMMARY_REQUIRE_ALL \/ IsExactlyAll(it.sampleType))

\* The strings of a set in ascending order
RECURSIVE SortedStrings(_)
SortedStrings(set) ==
    IF set = {} THEN <<>>
    ELSE Bind(CHOOSE s \in set : \A t \in set : StrLeq(s, t), LAMBDA s :
            <<s>> \o SortedStrings(set \ {s}))

\* items: one entry for each (metric, month) of itemsRaw, with the value of
\* the record byMetricMonth keeps
SummaryItems(itemsRaw, defaultMonth) ==
    { [metric |-> key[1], bucket |-> key[2],
       value |-> ByMetricMonth(SelectSeq(itemsRaw,
                                 LAMBDA it : /\ it.metric = key[1]
                                             /\ CoerceMonth(it.bucket, defaultMonth) = key[2]),
                               1, Null).value] :
      key \in { <<itemsRaw[i].metric, CoerceMonth(itemsRaw[i].bucket, defaultMonth)>> :
                i \in {j \in 1..Len(itemsRaw) :
                         CoerceMonth(itemsRaw[j].bucket, defaultMonth) # ""} } }

\* timeBuckets before the fallback
SummaryTimeBuckets(items, defaultMonth) ==
    IF items = {} /\ defaultMonth # "" THEN <<defaultMonth>>
    ELSE SortedStrings({it.bucket : it \in items})

\* seriesByMetric[metric][bucket], Null when there is no such key
ValueAt(series, metric, bucket) ==
    IF \E it \in series : it.metric = metric /\ it.bucket = bucket
    THEN Num((CHOOSE it \in series : it.metric = metric /\ it.bucket = bucket).value)
    ELSE Null

\* avgPrice of the enrichment for the bucket b: the month's, the overall
\* one, or the first of the avg_price entries
SummaryAvgPrice(series, itemsRaw, defaultMonth, b) ==
    IF ValueAt(series, "avg_price", b) # Null THEN ValueAt(series, "avg_price", b)
    ELSE IF ValueAt(series, "avg_price", "overall") # Null
    THEN ValueAt(series, "avg_price", "overall")
    ELSE Bind(SelectSeq(itemsRaw, LAMBDA it : it.metric = "avg_price"), LAMBDA prices :
            IF prices = <<>> THEN Null
            ELSE ValueAt(series, "avg_price", CoerceMonth(prices[1].bucket, defaultMonth)))

\* The roas, acos and tacos entries the enrichment puts for the bucket b
SummaryDerived(series, itemsRaw, defaultMonth, b) ==
    Bind(ValueAt(series, "cr", b), LAMBDA cr :
    Bind(ValueAt(series, "cpc", b), LAMBDA cpc :
    Bind(SummaryAvgPrice(series, itemsRaw, defaultMonth, b), LAMBDA avgPrice :
    Bind(ValueAt(series, "clickshare", b), LAMBDA clickShare :
        IF cpc = Null \/ cpc.n = 0 \/ cr = Null \/ avgPrice = Null THEN {}
        ELSE Bind(Div(Mul(cr.n, avgPrice.n), cpc.n), LAMBDA roas :
                {[metric |-> "roas", bucket |-> b, value |-> roas]}
                \cup (IF roas = 0 THEN {}
                      ELSE {[metric |-> "acos", bucket |-> b, value |-> Div(Scale, roas)]}
                           \cup (IF clickShare = Null THEN {}
                                 ELSE {[metric |-> "tacos", bucket |-> b,
                                        value |-> Mul(Div(Scale, roas), clickShare.n)]})))))))

\* seriesByMetric after the enrichment: an entry put replaces the entry read
SummaryEnriched(items, itemsRaw, defaultMonth, timeBuckets) ==
    Bind(UNION {SummaryDerived(items, itemsRaw, defaultMonth, timeBuckets[i]) :
                  i \in 1..Len(timeBuckets)}, LAMBDA put :
        put \cup {it \in items :
                    ~\E p \in put : p.metric = it.metric /\ p.bucket = it.bucket})

\* findOne({ datasetId, metric }).sort({ bucket: -1, createdAt: -1 })
LatestOfMetric(records, metric) ==
    Bind({i \in 1..Len(records) : records[i].metric = metric}, LAMBDA hits :
        IF hits = {} THEN Null
        ELSE records[CHOOSE i \in hits : \A j \in hits :
                        \/ ~StrLeq(records[i].bucket, records[j].bucket)
                        \/ /\ records[i].bucket = records[j].bucket
                           /\ records[j].createdAt <= records[i].createdAt])

\* The entries the fallback writes: the latest record of each metric named
SummaryFallback(records, q, defaultMonth) ==
    { [metric |-> m, bucket |-> CoerceMonth(LatestOfMetric(records, m).bucket, defaultMonth),
       value |-> LatestOfMetric(records, m).value] :
      m \in {n \in SeqRange(q.metrics) : LatestOfMetric(records, n) # Null} }

\* The answer: timeBuckets in order and the entries of seriesByMetric
SummaryAnswer(timeBuckets, series) == [timeBuckets |-> timeBuckets, series |-> series]

MetricsSummaryOf(series, timeBuckets, records, q, defaultMonth) ==
    IF (series = {} \/ timeBuckets = <<>>) /\ q.metrics # <<>>
    THEN Bind(SummaryFallback(records, q, defaultMonth), LAMBDA fallback :
            SummaryAnswer(
                SortedStrings((SeqRange(timeBuckets) \cup {e.bucket : e \in fallback}) \ {""}),
                fallback \cup {it \in series :
                                 ~\E e \in fallback : e.metric = it.metric
                                                      /\ e.bucket = it.bucket}))
    ELSE SummaryAnswer(timeBuckets, series)

\* router.get('/research/metrics-summary') for the records of the dataset
MetricsSummary(records, q, defaultMonth) ==
    Bind(SummaryItemsRaw(records, q), LAMBDA itemsRaw :
    Bind(SummaryItems(itemsRaw, defaultMonth), LAMBDA items :
    Bind(SummaryTimeBuckets(items, defaultMonth), LAMBDA timeBuckets :
        MetricsSummaryOf(SummaryEnriched(items, itemsRaw, defaultMonth, timeBuckets),
                         timeBuckets, records, q, defaultMonth))))

\* The records a dataset may hold, in the order they were created
SummaryPool ==
    << SummaryRecord("sales_units", "2025-08", 100 * Scale, Str("All"), 1),
       SummaryRecord("sales_units", "2025-09", 200 * Scale, Str("All"), 2),
       SummaryRecord("cpc", "202510", 50, Str("Top 10"), 3),
       SummaryRecord("cr", "2025-10", 10, Str("Top 10"), 4),
       SummaryRecord("avg_price", "overall", 20 * Scale, Str("All"), 5),
       SummaryRecord("fulfillment_fba", "overall", 60, Str("All"), 6) >>
SummaryDatasets ==
    { SelectSeq(SummaryPool, LAMBDA it : it.createdAt \in kept) :
      kept \in SUBSET (1..Len(SummaryPool)) }
SummaryMetricLists ==
    {<<>>, <<"sales_units">>, <<"fulfillment_fba">>, <<"cr", "cpc", "avg_price">>}
SummaryRanges ==
    { <<"", "">>, <<"2025-09", "2025-12">>, <<"2025-08", "2025-08">>, <<"2025-09", "">> }
SummaryQueries ==
    { SummaryQuery(metrics, range[1], range[2]) :
      metrics \in SummaryMetricLists, range \in SummaryRanges }
SummaryDefaultMonths == {"2025-08", ""}

SummaryInit ==
    /\ reconIn \in [records : SummaryDatasets, q : SummaryQueries,
                    defaultMonth : SummaryDefaultMonths]
    /\ reconOut = ReconPending

\* GET /research/metrics-summary?datasetId=..&metrics=..&from=..&to=..
GetSummary ==
    /\ reconOut.query = "none"
    /\ reconOut' = [query |-> "summary",
                    value |-> MetricsSummary(reconIn.records, reconIn.q,
                                             reconIn.defaultMonth)]
    /\ UNCHANGED <<reconIn, notRecon>>

\* ------------------------------------------------------------------------
\* C22: the buckets of a ranged summary
\* ------------------------------------------------------------------------

Summarised == reconOut.query = "summary"
HasRange == reconIn.q.from # "" /\ reconIn.q.to # ""
InsideRange(b) == StrLeq(reconIn.q.from, b) /\ StrLeq(b, reconIn.q.to)
ReturnedBuckets ==
    SeqRange(reconOut.value.timeBuckets) \cup {e.bucket : e \in reconOut.value.series}

\* C22: for a summary query with a month range, every bucket of timeBuckets
\* and every bucket key of seriesByMetric lies inside the range, and every
\* bucket key of seriesByMetric is a member of timeBuckets.
C22_BucketsInsideRange ==
    (Summarised /\ HasRange) =>
        /\ \A b \in ReturnedBuckets : InsideRange(b)
        /\ {e.bucket : e \in reconOut.value.series} \subseteq SeqRange(reconOut.value.timeBuckets)

\* What the code does: the buckets stay inside the range when the records
\* the range matched carry month buckets and gave the answer, that is when
\* neither the default month nor the fallback supplied a bucket
RangeMatched == SummaryItemsRaw(reconIn.records, reconIn.q)
MonthBucketsOnly ==
    \A i \in 1..Len(RangeMatched) :
        CoerceMonth(RangeMatched[i].bucket, "") = RangeMatched[i].bucket
C22_MatchedMonthsInsideRange ==
    (Summarised /\ HasRange /\ RangeMatched # <<>> /\ MonthBucketsOnly) =>
        /\ \A b \in ReturnedBuckets : InsideRange(b)
        /\ {e.bucket : e \in reconOut.value.series} \subseteq SeqRange(reconOut.value.timeBuckets)

\* A ranged query answered from the records the range matched
C22_Witness ==
    /\ Summarised /\ HasRange /\ RangeMatched # <<>> /\ MonthBucketsOnly
    /\ reconOut.value.timeBuckets = <<"2025-09">>
    /\ [metric |-> "sales_units", bucket |-> "2025-09", value |-> 200 * Scale]
           \in reconOut.value.series

\* The fallback answers a query for 2025-09..2025-12 with the 2025-08 record
C22_FallbackOutsideRange ==
    /\ Summarised
    /\ reconIn.q = SummaryQuery(<<"sales_units">>, "2025-09", "2025-12")
    /\ reconOut.value.timeBuckets = <<"2025-08">>
    /\ [metric |-> "sales_units", bucket |-> "2025-08", value |-> 100 * Scale]
           \in reconOut.value.series

\* ------------------------------------------------------------------------
\* C23: the status of a dataset
\* ------------------------------------------------------------------------

\* The place of a status in uploaded -> parsed -> ready | failed
StatusRank(status) ==
    CASE status = "uploaded" -> 1
      [] status = "parsed" -> 2
      [] status \in {"ready", "failed"} -> 3
      [] OTHER -> 0

BecomesReady(d) ==
    researchDatasets[d].status # "ready" /\ researchDatasets'[d].status = "ready"

\* The step is the status update that ends a successful ingestion by the
\* handler p: its records are stored, and it answers 200 (the Ads handler
\* after its guarded defaults update)
EndsSuccessfulIngestion(p) ==
    /\ procs[p].pc = "ready"
    /\ procs[p].docs # <<>>
    /\ SeqRange(procs[p].docs) \subseteq SeqRange(researchSeries)
    /\ \/ procs'[p].pc = "defaults"
       \/ /\ procs'[p].results # <<>>
          /\ procs'[p].results[Len(procs'[p].results)].job = procs[p].job
          /\ procs'[p].results[Len(procs'[p].results)].status = 200

\* C23: the status of a dataset only moves forward in the order uploaded,
\* parsed, ready or failed; it becomes ready only in the last step of a
\* successful sheet ingestion, after the records of the sheet were inserted;
\* and no later ingestion moves it back from ready.
C23_StatusOnlyForward ==
    [][\A d \in DatasetIds :
        /\ researchDatasets[d] # NoDataset =>
            /\ researchDatasets'[d] # NoDataset
            /\ StatusRank(researchDatasets[d].status) <= StatusRank(researchDatasets'[d].status)
            /\ researchDatasets[d].status = "ready" => researchDatasets'[d].status = "ready"
        /\ researchDatasets'[d] # NoDataset => researchDatasets'[d].status \in {"parsed", "ready"}
        /\ BecomesReady(d) => \E slot \in Slots : EndsSuccessfulIngestion(<<d, slot>>)
      ]_vars

\* A ready dataset whose later ingestion request failed
C23_Witness ==
    /\ researchDatasets["d1"].status = "ready"
    /\ procs[<<"d1", "manual">>].pc = "idle"
    /\ procs[<<"d1", "manual">>].results # <<>>
    /\ procs[<<"d1", "manual">>].results[1].status = 500
    /\ \E i \in 1..Len(procs[<<"d1", "auto">>].results) :
           procs[<<"d1", "auto">>].results[i].status = 200

\* ------------------------------------------------------------------------
\* C24: the records of a sheet while it is ingested
\* ------------------------------------------------------------------------

\* The sourceSheet values of the records before and after the step
SourceSheets ==
    {researchSeries[i].sourceSheet : i \in 1..Len(researchSeries)}
    \cup {researchSeries'[i].sourceSheet : i \in 1..Len(researchSeries')}
TwoPhaseSheets == {"Market Analysis", "Derived", "Market-research"}

SheetRecords(series, d, sourceSheet) ==
    SelectSeq(series, LAMBDA doc : MatchesDelete(doc, d, sourceSheet))

\* The step leaves the records of (d, sourceSheet) as they were, leaves
\* none, or leaves the complete set a handler at its insert computed
OldEmptyOrNew(d, sourceSheet) ==
    \/ SheetRecords(researchSeries', d, sourceSheet) = SheetRecords(researchSeries, d, sourceSheet)
    \/ SheetRecords(researchSeries', d, sourceSheet) = <<>>
    \/ \E slot \in Slots :
        /\ procs[<<d, slot>>].pc = "insert"
        /\ SheetRecords(researchSeries', d, sourceSheet)
             = SelectSeq(procs[<<d, slot>>].docs, LAMBDA doc : doc.sourceSheet = sourceSheet)

\* C24: with one ingestion at a time, the records of a sheet of a dataset
\* are in every state the complete previous set, empty, or the complete new
\* set, never a mixture, also when the ingestion stops between its delete
\* and its insert.
C24_OldEmptyOrNew ==
    [][\A sourceSheet \in SourceSheets : OldEmptyOrNew("d1", sourceSheet)]_vars

\* What the code does: this holds for the handlers with one deleteMany and
\* one insertMany of the same sourceSheet, and an insert after a stopped
\* ingestion stores what the handler computes from the workbook alone
C24_SinglePhaseOldEmptyOrNew ==
    [][/\ \A sourceSheet \in SourceSheets \ TwoPhaseSheets : OldEmptyOrNew("d1", sourceSheet)
       /\ \A slot \in Slots :
            (/\ procs[<<"d1", slot>>].pc = "insert"
             /\ SourceSheetOf(procs[<<"d1", slot>>].job) \notin TwoPhaseSheets
             /\ researchSeries' # researchSeries) =>
                SheetRecords(researchSeries', "d1", SourceSheetOf(procs[<<"d1", slot>>].job))
                  = procs[<<"d1", slot>>].docs
      ]_vars

\* An ingestion stopped between its delete and its insert, the records of
\* its sheet gone
C24_StoppedWitness ==
    /\ Quiet
    /\ procs[<<"d1", "manual">>].results # <<>>
    /\ procs[<<"d1", "manual">>].results[1].status = 500
    /\ procs[<<"d1", "manual">>].results[1].job.handler = "Fulfillment"
    /\ SheetRecords(researchSeries, "d1", "Fulfillment") = <<>>
    /\ \E i \in 1..Len(procs[<<"d1", "auto">>].results) :
          /\ procs[<<"d1", "auto">>].results[i].job.handler = "Fulfillment"
          /\ procs[<<"d1", "auto">>].results[i].status = 200

\* The monthly records of a Market-research ingestion that stopped before
\* its final insert: neither the set before, nor empty, nor the whole set
C24_MonthlyRecordsAlone ==
    /\ Quiet
    /\ Len(SheetRecords(researchSeries, "d1", "Market-research")) = 3
    /\ \A i \in 1..3 :
          SheetRecords(researchSeries, "d1", "Market-research")[i].bucket # "overall"

\* ------------------------------------------------------------------------
\* C25: the metrics of the Ads category-aggregate path
\* ------------------------------------------------------------------------

AdsRawHeader ==
    << Str("Keyword"), Str("Clicks"), Str("Impressions"), Str("Monthly Sales"),
       Str("Monthly Searches"), Str("PPC Bid"), Str("Click Share"), Str("Avg Price") >>

\* An Ads sheet with raw columns and one keyword row
AdsRawSheet(clicks, impr, sales, searches, bid, clickShare, avgPrice) ==
    << AdsRawHeader,
       <<Str("pan"), clicks, impr, sales, searches, bid, clickShare, avgPrice>> >>

AdsRawSheets ==
    { AdsRawSheet(clicks, impr, sales, searches, bid, clickShare, avgPrice) :
        clicks \in {Num(0), Num(50 * Scale)},
        impr \in {Num(0), Num(1000 * Scale)},
        sales \in {Num(0), Num(20 * Scale)},
        searches \in {Num(0), Num(400 * Scale)},
        bid \in {Num(0), Num(150)},
        clickShare \in {Null, Num(20 * Scale)},
        avgPrice \in {Null, Num(0), Num(20 * Scale)} }

\* handleAdsMetricsSheet on the sheet hdrRows, the store holding no record
ParseAdsSheet ==
    /\ ~maOut.done
    /\ maOut' = [done |-> TRUE, res |-> AdsParse(MaDataset, hdrRows, <<>>, <<>>)]
    /\ UNCHANGED <<maRows, notMa>>

AdsCell(k) == hdrRows[2][k]
AdsEmitted(metric) == DocsOfMetric(maOut.res.docs, metric) # <<>>
AdsValue(metric) == DocsOfMetric(maOut.res.docs, metric)[1].value
AdsPositive(k) == IsNum(AdsCell(k)) /\ AdsCell(k).n > 0

\* acos and tacos as the reciprocal and the product, in hundredths
AdsIdentities ==
    /\ AdsEmitted("acos") =>
          /\ AdsEmitted("roas")
          /\ AdsValue("acos") = Div(Scale, AdsValue("roas"))
          /\ AdsValue("acos") * AdsValue("roas") <= Scale * Scale
          /\ AdsValue("acos") * AdsValue("roas") > Scale * Scale - AdsValue("roas")
    /\ AdsEmitted("tacos") =>
          /\ AdsEmitted("acos") /\ AdsEmitted("clickshare")
          /\ AdsValue("tacos") = Mul(AdsValue("acos"), AdsValue("clickshare"))

\* C25: in the category-aggregate path a metric whose input is missing or
\* whose denominator is zero is not emitted (no impressions for ctr, no
\* searches for cr, no clicks for cpc and clickShare, cpc or cr or avgPrice
\* missing or zero for roas, roas missing or zero for acos, acos or
\* clickShare missing for tacos), every emitted value is finite, acos x
\* roas = 1 and tacos = acos x clickShare.
C25_MissingOrZeroNotEmitted ==
    maOut.done =>
        /\ AdsEmitted("ctr") => AdsPositive(3)
        /\ AdsEmitted("cr") => AdsPositive(5)
        /\ AdsEmitted("cpc") => AdsPositive(2)
        /\ AdsEmitted("clickshare") => AdsPositive(2)
        /\ AdsEmitted("roas") =>
              /\ AdsEmitted("cpc") /\ AdsValue("cpc") # 0
              /\ AdsEmitted("cr") /\ AdsValue("cr") # 0
              /\ AdsPositive(8)
        /\ AdsEmitted("acos") => (AdsEmitted("roas") /\ AdsValue("roas") # 0)
        /\ \A i \in 1..Len(maOut.res.docs) : maOut.res.docs[i].value \in Int
        /\ AdsIdentities

\* What the code does: roas is emitted, as 0, when cr or avgPrice is zero;
\* the sheet answers 400 when no metric at all can be emitted
C25_RoasOfZeroEmitted ==
    maOut.done =>
        /\ AdsEmitted("ctr") = AdsPositive(3)
        /\ AdsEmitted("cr") = AdsPositive(5)
        /\ AdsEmitted("cpc") = AdsPositive(2)
        /\ AdsEmitted("clickshare") = AdsPositive(2)
        /\ AdsEmitted("roas") =
              (/\ AdsEmitted("cpc") /\ AdsValue("cpc") # 0
               /\ AdsEmitted("cr")
               /\ IsNum(AdsCell(8)))
        /\ AdsEmitted("acos") = (AdsEmitted("roas") /\ AdsValue("roas") # 0)
        /\ AdsEmitted("tacos") = (AdsEmitted("acos") /\ AdsEmitted("clickshare"))
        /\ \A i \in 1..Len(maOut.res.docs) : maOut.res.docs[i].value \in Int
        /\ AdsIdentities
        /\ (maOut.res.status = 400) = (~AdsPositive(2) /\ ~AdsPositive(3) /\ ~AdsPositive(5))
        /\ maOut.res.status \in {200, 400}

\* Every metric emitted
C25_Witness ==
    /\ maOut.done
    /\ \A metric \in {"ctr", "cr", "cpc", "roas", "acos", "clickshare", "tacos", "cpp"} :
          AdsEmitted(metric)
    /\ AdsValue("roas") = 66 /\ AdsValue("acos") = 151 /\ AdsValue("tacos") = 30

\* No sales among the searches: cr is 0 and roas is emitted as 0
C25_ZeroRoasWitness ==
    /\ maOut.done
    /\ AdsCell(4) = Num(0)
    /\ AdsEmitted("roas") /\ AdsValue("roas") = 0
    /\ ~AdsEmitted("acos")

\* ------------------------------------------------------------------------
\* C26: the auto-ingestion and an ingest request on the same sheet
\* ------------------------------------------------------------------------

\* Workbooks with one Fulfillment sheet
OverlapBooks ==
    { FulfillmentBook(<<"FBA">>), FulfillmentBook(<<"fbm">>), FulfillmentBook(<<"AMZ Retail">>),
      FulfillmentBook(<<"FBA", "fbm">>) }

\* Both ingestions of the Fulfillment sheet of d1 have answered 200
BothIngested ==
    /\ procs[<<"d1", "auto">>].pc = "done"
    /\ Len(procs[<<"d1", "auto">>].results) = 1
    /\ procs[<<"d1", "auto">>].results[1].status = 200
    /\ procs[<<"d1", "manual">>].pc = "idle"
    /\ procs[<<"d1", "manual">>].results # <<>>
    /\ procs[<<"d1", "manual">>].results[1].status = 200

\* The record set of the sheet: what either handler computed
FulfillmentSet == procs[<<"d1", "auto">>].results[1].docs

\* C26: when the auto-ingestion and an ingest request of the same sheet of
\* the same dataset run concurrently, then for every interleaving of their
\* delete and insert steps the store holds, after both have completed,
\* exactly one copy of the sheet's record set.
C26_ExactlyOneCopy ==
    BothIngested => SheetRecords(researchSeries, "d1", "Fulfillment") = FulfillmentSet

\* What the code does: one copy, or two when both deletes ran before both
\* inserts
C26_OneOrTwoCopies ==
    BothIngested =>
        /\ procs[<<"d1", "manual">>].results[1].docs = FulfillmentSet
        /\ SheetRecords(researchSeries, "d1", "Fulfillment")
             \in {FulfillmentSet, FulfillmentSet \o FulfillmentSet}

\* Both handlers between their delete and their insert
C26_BothDeleted ==
    /\ procs[<<"d1", "auto">>].pc = "insert"
    /\ procs[<<"d1", "manual">>].pc = "insert"

\* One copy after both
C26_OneCopyWitness ==
    BothIngested /\ SheetRecords(researchSeries, "d1", "Fulfillment") = FulfillmentSet

\* Two copies after both
C26_TwoCopies ==
    /\ BothIngested
    /\ SheetRecords(researchSeries, "d1", "Fulfillment") = FulfillmentSet \o FulfillmentSet

\* ------------------------------------------------------------------------
\* C27: a Market Analysis dataset and a Market-research dataset of one
\* category
\* ------------------------------------------------------------------------

ResearchWorkbook ==
    Workbook("US-Research-202508.xlsx", << Sheet("Market-research(1)-US", GoodMarketResearch) >>)
HeavyResearchWorkbook ==
    Workbook("US-Research-202508.xlsx", << Sheet("Market-research(1)-US", HeavyMarketResearch) >>)

\* d1 holds a Market Analysis sheet, d2 a Market-research sheet
CategoryBooks == [d \in DatasetIds |-> IF d = "d1" THEN {AnalysisWorkbook}
                                       ELSE {ResearchWorkbook, HeavyResearchWorkbook}]

\* Both auto-ingestions are over, each sheet answered 200
BothDatasetsIngested ==
    \A d \in DatasetIds :
        /\ procs[<<d, "auto">>].pc = "done"
        /\ Len(procs[<<d, "auto">>].results) = 1
        /\ procs[<<d, "auto">>].results[1].status = 200

\* The category as the upload creates it
FreshCategory == Category(CategoryName, Undef, Undef, Undef)

\* The records the Market Analysis handler computes for d1 in a store with
\* no other dataset
AnalysedAlone ==
    HandlerParse(Job("Market Analysis", "Market Analysis"), "auto", researchDatasets["d1"].doc,
                 AnalysisWorkbook, NoRequest, <<>>, <<researchDatasets["d1"].doc>>,
                 FreshCategory).docs

DerivedMetricNames == {"referral_fee", "cogs_cap", "profit", "margin", "roi"}
ValuesOf(records, metrics) ==
    SelectSeq([i \in 1..Len(records) |-> <<records[i].metric, records[i].value>>],
              LAMBDA mv : mv[1] \in metrics)

\* C27: for two datasets of one category ingested concurrently, the final
\* records of the Market Analysis dataset are the same for every
\* interleaving: its referral_fee, cogs_cap, profit, margin and roi do not
\* depend on whether the Market-research ingestion of the other dataset ran
\* before or after its Market Analysis ingestion.
C27_SameForEveryInterleaving ==
    BothDatasetsIngested =>
        ValuesOf(RecordsOf(researchSeries, "d1"), DerivedMetricNames)
          = ValuesOf(AnalysedAlone, DerivedMetricNames)

\* What the code does: the records that do not derive from the fee are the
\* same, and the derived ones are those of the fee in the store when the
\* Market Analysis handler read it
C27_OtherRecordsSame ==
    BothDatasetsIngested =>
        /\ ValuesOf(RecordsOf(researchSeries, "d1"),
                    {"sales_units", "revenue", "avg_price", "avg_ratings", "avg_rating"})
             = ValuesOf(AnalysedAlone,
                        {"sales_units", "revenue", "avg_price", "avg_ratings", "avg_rating"})
        /\ RecordsOf(researchSeries, "d1") = procs[<<"d1", "auto">>].results[1].docs

\* The Market Analysis ingestion ran first: the records of d1 alone
C27_AnalysisFirst ==
    /\ BothDatasetsIngested
    /\ RecordsOf(researchSeries, "d1") = AnalysedAlone

\* The Market-research ingestion ran first: another profit for d1
C27_ResearchFirst ==
    /\ BothDatasetsIngested
    /\ ValuesOf(RecordsOf(researchSeries, "d1"), {"profit"})
         # ValuesOf(AnalysedAlone, {"profit"})
    /\ ValuesOf(RecordsOf(researchSeries, "d1"), {"profit"}) # <<>>

\* ------------------------------------------------------------------------
\* C28: the FBA fee in the derived records of an auto-ingested workbook
\* ------------------------------------------------------------------------

AutoResults == procs[<<"d1", "auto">>].results

\* The auto-ingestion of a workbook with a Market Analysis and a
\* Market-research sheet is over, both sheets answered 200, nothing thrown
AnalysisAndResearchIngested ==
    /\ procs[<<"d1", "auto">>].pc = "done"
    /\ faults = 0
    /\ \A handler \in {"Market Analysis", "Market-research"} :
          \E i \in 1..Len(AutoResults) :
              AutoResults[i].job.handler = handler /\ AutoResults[i].status = 200

\* The fba_fee records of d1 in the store
StoredFbaFees ==
    SelectSeq(researchSeries, LAMBDA doc : doc.datasetId = "d1" /\ doc.metric = "fba_fee")

\* The stored records of the Market Analysis sheet of d1, the derived ones
\* among them, in the order of their insert
AnalysisRecords ==
    SelectSeq(researchSeries,
              LAMBDA doc : doc.datasetId = "d1"
                           /\ doc.sourceSheet \in {"Market Analysis", "Derived"})

\* Every stored profit and cogs_cap record is p - (0.2p + r + f + 0.2p) for
\* the price p and the referral fee r of its row and the FBA fee f
ProfitsUnderFee(f) ==
    \A k \in 1..Len(AnalysisRecords) :
        AnalysisRecords[k].metric = "cogs_cap" =>
            Bind(IF AnalysisRecords[k - 1].metric = "referral_fee" THEN k - 2 ELSE k - 1,
                 LAMBDA at :
                    /\ AnalysisRecords[at].metric = "avg_price"
                    /\ AnalysisRecords[k + 1].metric = "profit"
                    /\ AnalysisRecords[k + 1].value = AnalysisRecords[k].value
                    /\ AnalysisRecords[k].value
                         = ProfitOf(AnalysisRecords[at].value,
                                    IF at = k - 2 THEN AnalysisRecords[k - 1].value ELSE 0,
                                    f))

\* C28: after the auto-ingestion of one workbook with a Market Analysis and
\* a Market-research sheet into a category with no earlier data, the stored
\* profit and cogs_cap records equal price - (0.2 x price + referral_fee +
\* fba_fee + 0.2 x price) with the fba_fee stored for the same dataset by
\* the same auto-ingestion.
C28_ProfitUsesStoredFee ==
    AnalysisAndResearchIngested =>
        /\ StoredFbaFees # <<>>
        /\ ProfitsUnderFee(StoredFbaFees[Len(StoredFbaFees)].value)

\* What the code does: the Market Analysis sheet is handled before the
\* Market-research sheet, so the derived records are those of a fee of 0
C28_ProfitWithoutFee ==
    AnalysisAndResearchIngested =>
        /\ StoredFbaFees # <<>>
        /\ StoredFbaFees[Len(StoredFbaFees)].value > 0
        /\ ProfitsUnderFee(0)
        /\ \E k \in 1..Len(AnalysisRecords) : AnalysisRecords[k].metric = "cogs_cap"

\* The auto-ingestion of the workbook is over and the fee of 3.86 is stored
C28_Witness ==
    /\ AnalysisAndResearchIngested
    /\ researchDatasets["d1"].workbook = MarketWorkbook
    /\ StoredFbaFees[Len(StoredFbaFees)].value = 386

\* ------------------------------------------------------------------------
\* C29: the category match of the referral rules
\* ------------------------------------------------------------------------

\* Category names: spellings of one name, names that hold one another, a
\* name with the same words in another order, unrelated names, and names of
\* punctuation alone
MatchNames ==
    {"Home & Kitchen", "home and kitchen", "HOME-KITCHEN", "Kitchen", "Kitchen & Dining",
     "Kitchen, Home", "Toys", "Toys & Games", "--", "?"}

\* A rule of 15 % of the total at every price
RuleOfCategory(category) ==
    <<ReferralRule(category, Null, Null, Num(15), Str("total"), Undef)>>

MatchInit ==
    /\ feeIn \in [cat : {Category(name, Undef, Undef, Undef) : name \in MatchNames},
                  rules : {RuleOfCategory(category) : category \in MatchNames},
                  price : {20 * Scale}]
    /\ feeOut = [done |-> FALSE, value |-> Null, percent |-> Null]

\* The rule of feeIn was taken for the category of feeIn
RuleMatched == feeOut.value # Null
RuleNorm == NormalizeCategory(feeIn.rules[1].category)
ProductNorm == NormalizeCategory(feeIn.cat.name)

\* C29: the category match is symmetric, a rule of category a matches the
\* product category b exactly when a rule of category b matches the product
\* category a, also when one of them normalizes to the empty string, and it
\* depends on the normalized forms only.
C29_MatchIsSymmetric ==
    feeOut.done =>
        /\ RuleMatched = CategoryMatch(feeIn.cat.name, feeIn.rules[1].category)
        /\ \A a \in MatchNames : \A b \in MatchNames :
              (NormalizeCategory(a) = RuleNorm /\ NormalizeCategory(b) = ProductNorm) =>
                  CategoryMatch(a, b) = RuleMatched

\* What the code does: symmetric when both normalize to something; a rule
\* whose category normalizes to nothing matches no product, a product
\* category that normalizes to nothing is matched by every other rule
C29_SymmetricUnlessEmpty ==
    feeOut.done =>
        /\ (RuleNorm # "" /\ ProductNorm # "") =>
              RuleMatched = CategoryMatch(feeIn.cat.name, feeIn.rules[1].category)
        /\ RuleNorm = "" => ~RuleMatched
        /\ (RuleNorm # "" /\ ProductNorm = "") => RuleMatched
        /\ \A a \in MatchNames : \A b \in MatchNames :
              (NormalizeCategory(a) = RuleNorm /\ NormalizeCategory(b) = ProductNorm) =>
                  CategoryMatch(a, b) = RuleMatched

\* Names of the same words match though neither holds the other
C29_Witness ==
    /\ feeOut.done
    /\ feeIn.rules[1].category = "Kitchen, Home"
    /\ feeIn.cat.name = "HOME-KITCHEN"
    /\ RuleMatched
    /\ ~Includes(RuleNorm, ProductNorm) /\ ~Includes(ProductNorm, RuleNorm)

\* The rule of Kitchen matches the product category "--", the rule of "--"
\* does not match the product category Kitchen
C29_EmptyProductMatched ==
    /\ feeOut.done
    /\ feeIn.rules[1].category = "Kitchen"
    /\ feeIn.cat.name = "--"
    /\ RuleMatched
    /\ ~CategoryMatch("--", "Kitchen")

\* ------------------------------------------------------------------------
\* C30: the columns the Ads handler resolves
\* ------------------------------------------------------------------------

AdsCells == {"ACOS", "TACOS", "Clicks", "Click Share", "CTR", "Impressions"}

\* The headers of two or three different cells after the keyword column
AdsHeaders ==
    { cells \in UNION {[1..n -> AdsCells] : n \in 2..3} :
        \A i \in 1..Len(cells) : \A j \in 1..Len(cells) : i # j => cells[i] # cells[j] }

\* An Ads sheet with one keyword row, the number 0.1j under the cell j
AdsOrderSheet(cells) ==
    << <<Str("Keyword")>> \o [j \in 1..Len(cells) |-> Str(cells[j])],
       <<Str("pan")>> \o [j \in 1..Len(cells) |-> Num(10 + j)] >>
AdsOrderSheets == { AdsOrderSheet(cells) : cells \in AdsHeaders }

\* The column of the header cell name, from 1, 0 when the header has none
AdsCellIndex(name) ==
    IF \E j \in 1..Len(hdrRows[1]) : hdrRows[1][j] = Str(name)
    THEN CHOOSE j \in 1..Len(hdrRows[1]) : hdrRows[1][j] = Str(name)
    ELSE 0
AdsHas(name) == AdsCellIndex(name) # 0
FirstOfCells(a, b) ==
    IF AdsHas(a) /\ (~AdsHas(b) \/ AdsCellIndex(a) < AdsCellIndex(b)) THEN AdsCellIndex(a)
    ELSE AdsCellIndex(b)

AdsTargets == {"ctr", "acos", "tacos", "clicks", "impressions", "clickShare"}

\* C30: two different targets never resolve to the same header cell: with
\* a TACOS and an ACOS column, in either order, acos resolves to the ACOS
\* cell and tacos to the TACOS cell, and with a Clicks and a Click Share
\* column, in either order, clicks resolves to the Clicks cell.
C30_TargetsResolveApart ==
    maOut.done =>
        /\ \A s \in AdsTargets : \A t \in AdsTargets \ {s} :
              AdsColumnsOf(hdrRows)[s] # 0 => AdsColumnsOf(hdrRows)[s] # AdsColumnsOf(hdrRows)[t]
        /\ (AdsHas("ACOS") /\ AdsHas("TACOS")) =>
              /\ AdsColumnsOf(hdrRows).acos = AdsCellIndex("ACOS")
              /\ AdsColumnsOf(hdrRows).tacos = AdsCellIndex("TACOS")
        /\ (AdsHas("Clicks") /\ AdsHas("Click Share")) =>
              AdsColumnsOf(hdrRows).clicks = AdsCellIndex("Clicks")

\* What the code does: a target resolves to the first cell that holds one
\* of its aliases, so acos takes a TACOS cell and clicks a Click Share cell
\* that comes first
C30_FirstCellHoldingAlias ==
    maOut.done =>
        /\ AdsColumnsOf(hdrRows).acos = FirstOfCells("ACOS", "TACOS")
        /\ AdsColumnsOf(hdrRows).tacos = AdsCellIndex("TACOS")
        /\ AdsColumnsOf(hdrRows).clicks = FirstOfCells("Clicks", "Click Share")
        /\ AdsColumnsOf(hdrRows).clickShare = AdsCellIndex("Click Share")
        /\ AdsColumnsOf(hdrRows).ctr = AdsCellIndex("CTR")
        /\ AdsColumnsOf(hdrRows).impressions = AdsCellIndex("Impressions")

\* ACOS before TACOS: each record holds the number under its own cell
C30_Witness ==
    /\ maOut.done
    /\ hdrRows = AdsOrderSheet(<<"ACOS", "TACOS">>)
    /\ AdsValue("acos") = 11
    /\ AdsValue("tacos") = 12

\* TACOS before ACOS: the acos record holds the number under the TACOS cell
C30_AcosReadsTacos ==
    /\ maOut.done
    /\ hdrRows = AdsOrderSheet(<<"TACOS", "ACOS">>)
    /\ AdsColumnsOf(hdrRows).acos = AdsColumnsOf(hdrRows).tacos
    /\ AdsValue("acos") = 11
    /\ AdsValue("tacos") = 11

\* ------------------------------------------------------------------------
\* Specifications
\* ------------------------------------------------------------------------

OthersIdle == PctIdle /\ HdrIdle /\ FeeIdle /\ MaIdle /\ ReconIdle /\ WtIdle

InitPct == PctInit /\ HdrIdle /\ FeeIdle /\ MaIdle /\ ReconIdle /\ WtIdle /\ StIdle
SpecPct == InitPct /\ [][PctNext]_vars

InitHeader == HdrInit /\ PctIdle /\ FeeIdle /\ MaIdle /\ ReconIdle /\ WtIdle /\ StIdle
SpecHeader == InitHeader /\ [][HdrNext]_vars

InitFee == FeeInit /\ PctIdle /\ HdrIdle /\ MaIdle /\ ReconIdle /\ WtIdle /\ StIdle
SpecFee == InitFee /\ [][FeeNext]_vars

InitMA == MaInit /\ PctIdle /\ HdrIdle /\ FeeIdle /\ ReconIdle /\ WtIdle /\ StIdle
SpecMA == InitMA /\ [][MaNext]_vars

InitRecon == ReconInit /\ PctIdle /\ HdrIdle /\ FeeIdle /\ MaIdle /\ WtIdle /\ StIdle
SpecRecon == InitRecon /\ [][ReconNext]_vars

InitWeight == WtInit /\ PctIdle /\ HdrIdle /\ FeeIdle /\ MaIdle /\ ReconIdle /\ StIdle
SpecWeight == InitWeight /\ [][WtNext]_vars

\* One dataset: upload, ingest requests one after the other, handler steps
\* and thrown operations
InitStore == StInit /\ OthersIdle
Next ==
    \/ Upload("d1", Workbooks)
    \/ IngestAlone("d1")
    \/ \E slot \in Slots : Step(<<"d1", slot>>)
    \/ \E slot \in Slots : Throw(<<"d1", slot>>)
Spec == InitStore /\ [][Next]_vars

\* One dataset and its auto-ingestion alone
InitAuto == StInit /\ OthersIdle
NextAuto ==
    \/ Upload("d1", Workbooks)
    \/ Step(<<"d1", "auto">>)
    \/ Throw(<<"d1", "auto">>)
SpecAuto == InitAuto /\ [][NextAuto]_vars

\* Two datasets of one category
InitTwo == StInit /\ OthersIdle
NextTwo ==
    \/ \E d \in DatasetIds : Upload(d, TwoWorkbooks)
    \/ \E d \in DatasetIds : FirstIngest(d)
    \/ \E p \in ProcIds : Parse(p)
    \/ \E p \in ProcIds : Delete(p)
    \/ \E p \in ProcIds : Insert(p)
    \/ \E p \in ProcIds : Ready(p)
SpecTwo == InitTwo /\ [][NextTwo]_vars

\* One dataset, its auto-ingestion and its DELETE request
InitRemove == StInit /\ OthersIdle
NextRemove ==
    \/ Upload("d1", Workbooks)
    \/ Step(<<"d1", "auto">>)
    \/ DeleteDatasetSeries("d1")
    \/ DeleteDatasetDoc("d1")
SpecRemove == InitRemove /\ [][NextRemove]_vars

\* Two datasets of one category: a US-Market workbook and a workbook of Ads
\* sheets of the same month, each with its auto-ingestion
AdsBooks == [d \in DatasetIds |-> IF d = "d1" THEN {MarketWorkbook}
                                  ELSE {BatchWorkbook, AdsWorkbook}]
InitAds == StInit /\ OthersIdle
NextAds ==
    \/ \E d \in DatasetIds : Upload(d, AdsBooks[d])
    \/ \E d \in DatasetIds : Step(<<d, "auto">>)
SpecAds == InitAds /\ [][NextAds]_vars

\* The Market-research computation over varied size-tier and fee rules
InitRules ==
    /\ \E w \in SheetWeights, v \in SheetVolumes :
        \E allTiers \in TierLists, fbaFeeRules \in FeeRuleLists :
            wtIn = [rows |-> <<WeightSheetHeader, WeightRow(Num(w), Num(v))>>, w |-> w, v |-> v,
                    allTiers |-> allTiers, fbaFeeRules |-> fbaFeeRules]
    /\ wtOut = WtPending
    /\ PctIdle /\ HdrIdle /\ FeeIdle /\ MaIdle /\ ReconIdle /\ StIdle
SpecRules == InitRules /\ [][WtNext]_vars

\* The Market Analysis handler over varied categories and referral rules
InitEnrich ==
    /\ maRows \in EnrichSheets
    /\ maOut = MaPending
    /\ feeIn \in [cat : EnrichCategories, rules : EnrichRuleTables, price : {0}]
    /\ feeOut = [done |-> FALSE, value |-> Null, percent |-> Null]
    /\ PctIdle /\ HdrIdle /\ ReconIdle /\ WtIdle /\ StIdle
NextEnrich == ParseWithLookups
SpecEnrich == InitEnrich /\ [][NextEnrich]_vars

\* One dataset with a Fulfillment sheet and its auto-ingestion
InitFulfillment == StInit /\ OthersIdle
NextFulfillment ==
    \/ Upload("d1", FulfillmentBooks)
    \/ Parse(<<"d1", "auto">>)
    \/ Delete(<<"d1", "auto">>)
    \/ Insert(<<"d1", "auto">>)
    \/ Ready(<<"d1", "auto">>)
SpecFulfillment == InitFulfillment /\ [][NextFulfillment]_vars

\* The Market Analysis handler over headers with ratings cells in every order
InitColumns ==
    /\ hdrRows \in RatingSheets
    /\ hdrOut = [parser |-> "idle", headerRowIdx |-> 0, dataRows |-> <<>>]
    /\ MaIdle
    /\ PctIdle /\ FeeIdle /\ ReconIdle /\ WtIdle /\ StIdle
NextColumns == ResolveMarketColumns
SpecColumns == InitColumns /\ [][NextColumns]_vars


\* The summary query of one dataset under every range and metric filter
InitSummary ==
    /\ SummaryInit
    /\ PctIdle /\ HdrIdle /\ FeeIdle /\ MaIdle /\ WtIdle /\ StIdle
NextSummary == GetSummary
SpecSummary == InitSummary /\ [][NextSummary]_vars


\* The Ads handler on one-row sheets with raw columns
InitAdsMetrics ==
    /\ hdrRows \in AdsRawSheets
    /\ hdrOut = [parser |-> "idle", headerRowIdx |-> 0, dataRows |-> <<>>]
    /\ MaIdle
    /\ PctIdle /\ FeeIdle /\ ReconIdle /\ WtIdle /\ StIdle
NextAdsMetrics == ParseAdsSheet
SpecAdsMetrics == InitAdsMetrics /\ [][NextAdsMetrics]_vars


\* One dataset with a Fulfillment sheet: its auto-ingestion and an ingest
\* request at any moment of it
InitOverlap == StInit /\ OthersIdle
NextOverlap ==
    \/ Upload("d1", OverlapBooks)
    \/ FirstIngest("d1")
    \/ \E slot \in Slots : Parse(<<"d1", slot>>)
    \/ \E slot \in Slots : Delete(<<"d1", slot>>)
    \/ \E slot \in Slots : Insert(<<"d1", slot>>)
    \/ \E slot \in Slots : Ready(<<"d1", slot>>)
SpecOverlap == InitOverlap /\ [][NextOverlap]_vars


\* Two datasets of one category: a Market Analysis workbook and a
\* Market-research workbook, each with its auto-ingestion
InitCategory == StInit /\ OthersIdle
NextCategory ==
    \/ \E d \in DatasetIds : Upload(d, CategoryBooks[d])
    \/ \E d \in DatasetIds : Parse(<<d, "auto">>)
    \/ \E d \in DatasetIds : Delete(<<d, "auto">>)
    \/ \E d \in DatasetIds : Insert(<<d, "auto">>)
    \/ \E d \in DatasetIds : Ready(<<d, "auto">>)
    \/ PersistConstants(<<"d2", "auto">>)
    \/ MonthlyDelete(<<"d2", "auto">>)
    \/ MonthlyInsert(<<"d2", "auto">>)
    \/ PersistReferralDefault(<<"d2", "auto">>)
SpecCategory == InitCategory /\ [][NextCategory]_vars


\* The referral fee of one rule for one category, over pairs of names
InitMatch == MatchInit /\ PctIdle /\ HdrIdle /\ MaIdle /\ ReconIdle /\ WtIdle /\ StIdle
NextMatch == ComputeReferralFee
SpecMatch == InitMatch /\ [][NextMatch]_vars


\* The Ads handler over headers with its cells in every order
InitAdsColumns ==
    /\ hdrRows \in AdsOrderSheets
    /\ hdrOut = [parser |-> "idle", headerRowIdx |-> 0, dataRows |-> <<>>]
    /\ MaIdle
    /\ PctIdle /\ FeeIdle /\ ReconIdle /\ WtIdle /\ StIdle
NextAdsColumns == ParseAdsSheet
SpecAdsColumns == InitAdsColumns /\ [][NextAdsColumns]_vars

====
